---- MODULE Spec2Model ----
(***************************************************************************)
(* The lock / unlock state machine of the NFT bridge: the two verifier     *)
(* contracts EthereumBridge (src/contract/Bad_Bunnz_Interface.sol) and     *)
(* MegaEthBridge (src/contract/MegaEthBridge.sol), each with the NFT       *)
(* collection it moves, driven by users, the owner and the root submitter; *)
(* and the relay (src/backend/src): event listener, proof generator and    *)
(* relayer over their database and job queues.                             *)
(*                                                                         *)
(* A transaction is one step.  Every entry point is an operator from the   *)
(* ledger state before the call to an outcome [ok, reason, st]: a revert   *)
(* returns the state before the call (the EVM rolls the whole transaction  *)
(* back, the NFT collection's part and the emitted events included).       *)
(*                                                                         *)
(* keccak256 over abi.encodePacked of fixed-width fields is modelled as an *)
(* injective constructor: a hash is the flat sequence of a tag (one per    *)
(* preimage length) followed by its fields, a nested hash inlined.         *)
(***************************************************************************)
EXTENDS Integers, Sequences, FiniteSets

VARIABLES ledger, blockNumber, nLocks, nForged, nAdmin, db, queue, proc, nFaults, nOverlaps,
          checkpoint

vars == <<ledger, blockNumber, nLocks, nForged, nAdmin, db, queue, proc, nFaults, nOverlaps,
          checkpoint>>

----------------------------------------------------------------------------
(* Bounds of the model *)

\* block.number of each chain runs over 1..MaxBlock
MaxBlock == 2
\* what a run may spend: one per locked token, one per accepted call of the
\* owner's entry points (pause, unpause, setRootSubmitter, clearBlockRoot,
\* airdrop, setBridgeAddress), of a holder's approve and transferFrom and of
\* a bridge account's bridgeMint and bridgeBurn, ForgeCost per dishonest
\* root submission
MaxBudget == 3
ForgeCost == 2
\* elements of one batch call
MaxBatch == 2

----------------------------------------------------------------------------
(* The universe: chains, tokens, addresses *)

ETH == "eth"
MEGA == "mega"
Chains == {ETH, MEGA}

Other(c) == IF c = ETH THEN MEGA ELSE ETH

Tokens == {1, 2}
\* Bad_Bunnz.maxSupply, a constructor argument: every token id may be airdropped
MaxSupply == 2

ZeroAddress == 0
Users == {1, 2}
\* the deployer of both bridges: Ownable's owner, and the first rootSubmitter
Deployer == 9
\* address(this) of the verifier on chain c
BridgeAddress(c) == IF c = ETH THEN 11 ELSE 12

Blocks == 1..MaxBlock

----------------------------------------------------------------------------
(* Hashes *)

\* bytes32(0)
ZeroHash == <<0>>

\* keccak256(abi.encodePacked(tokenId, msg.sender, recipient, block.number, address(this)))
LockHash(tokenId, sender, recipient, bn, bridge) ==
    <<1, tokenId, sender, recipient, bn, bridge>>

\* keccak256(abi.encodePacked(tokenIds[i], msg.sender, recipient, block.number, address(this), i))
BatchLockHash(tokenId, sender, recipient, bn, bridge, i) ==
    <<2, tokenId, sender, recipient, bn, bridge, i>>

\* keccak256(abi.encodePacked(tokenId, recipient, lockHash, blockNumber))
LeafHash(tokenId, recipient, lockHash, bn) ==
    <<3, tokenId, recipient>> \o lockHash \o <<bn>>

\* the order of bytes32 values: any total order does, the pair sort only
\* needs the same one at construction and at verification
HashLess(a, b) ==
    IF Len(a) # Len(b)
    THEN Len(a) < Len(b)
    ELSE \E i \in 1..Len(a) :
            /\ a[i] < b[i]
            /\ \A j \in 1..(i - 1) : a[j] = b[j]

\* MerkleProof._hashPair: a < b ? keccak256(a, b) : keccak256(b, a)
HashPair(a, b) ==
    IF HashLess(a, b) THEN <<4>> \o a \o b ELSE <<4>> \o b \o a

RECURSIVE ProcessProofFrom(_, _, _)
ProcessProofFrom(proof, computedHash, i) ==
    IF i > Len(proof)
    THEN computedHash
    ELSE ProcessProofFrom(proof, HashPair(computedHash, proof[i]), i + 1)

\* MerkleProof.processProof: fold the siblings, in proof order, over the leaf
ProcessProof(proof, leaf) == ProcessProofFrom(proof, leaf, 1)

\* MerkleProof.verify(proof, root, leaf)
MerkleVerify(proof, root, leaf) == ProcessProof(proof, leaf) = root

----------------------------------------------------------------------------
(* Records *)

\* struct LockData
MkLockData(tokenId, owner, recipient, bn, lockHash) ==
    [tokenId |-> tokenId, owner |-> owner, recipient |-> recipient,
     blockNumber |-> bn, lockHash |-> lockHash]

\* the value a mapping(bytes32 => LockData) returns for a key never written
ZeroLockData == MkLockData(0, ZeroAddress, ZeroAddress, 0, ZeroHash)

\* struct RootMetadata (submittedAt, a timestamp, is left out)
ZeroRootMetadata == [submitter |-> ZeroAddress, lockCount |-> 0]

\* lockData[lockHash]
Recorded(st, lockHash) ==
    IF lockHash \in DOMAIN st.lockData THEN st.lockData[lockHash] ELSE ZeroLockData

\* lockData[h] = d
PutLockData(st, d) ==
    [st EXCEPT !.lockData =
        [h \in (DOMAIN st.lockData) \cup {d.lockHash} |->
            IF h = d.lockHash THEN d ELSE st.lockData[h]]]

\* delete lockData[h]
DeleteLockData(st, lockHash) ==
    [st EXCEPT !.lockData =
        [h \in (DOMAIN st.lockData) \ {lockHash} |-> st.lockData[h]]]

\* one more copy of e in the bag b (an event log, the order left out)
BagAdd(b, e) ==
    [x \in (DOMAIN b) \cup {e} |->
        IF x = e THEN (IF e \in DOMAIN b THEN b[e] + 1 ELSE 1) ELSE b[x]]

EmptyBag == [x \in {} |-> 0]

RECURSIVE BagSize(_)
BagSize(b) ==
    IF DOMAIN b = {}
    THEN 0
    ELSE LET e == CHOOSE x \in DOMAIN b : TRUE
         IN b[e] + BagSize([x \in (DOMAIN b) \ {e} |-> b[x]])

\* the outcome of a call
Revert(st, reason) == [ok |-> FALSE, reason |-> reason, st |-> st]
Success(st) == [ok |-> TRUE, reason |-> "", st |-> st]

----------------------------------------------------------------------------
(* The state after construction *)

\* the ledger of one chain: the verifier's storage; its NFT collection's
\* owners, approvals (getApproved per token, and the owners that granted
\* the verifier setApprovalForAll), bridgeAddress and mintedSupply; and the
\* events the verifier emitted (NFTLocked and NFTUnlocked as bags, and in
\* the order of the chain's log as lockLog and unlockLog;
\* BlockRootSet as the set of the accepted submissions, each with the
\* records its transaction carried) and the collection's Airdropped events
\* since (the token ids); contracts holds the addresses with code on the
\* chain, the verifier alone, which declares no onERC721Received;
\* unlockBlock is the block each unlock's transaction was mined in (its
\* receipt's blockNumber), by lock hash; sent is the number of transactions
\* the relayer's wallet has sent on the chain.
\* The collection on Ethereum has all its supply airdropped to user 1 and
\* no bridge address yet (the verifier there never mints); the one on
\* MegaETH is empty, its bridge address set to the verifier.
InitLedger(c) ==
    [ nftOwner |-> [t \in Tokens |-> IF c = ETH THEN 1 ELSE ZeroAddress],
      tokenApprovals |-> [t \in Tokens |-> ZeroAddress],
      operatorApprovals |-> {},
      bridgeAddress |-> IF c = ETH THEN ZeroAddress ELSE BridgeAddress(c),
      contracts |-> {BridgeAddress(c)},
      mintedSupply |-> IF c = ETH THEN MaxSupply ELSE 0,
      lockedTokens |-> [t \in Tokens |-> FALSE],
      processedLocks |-> {},
      activeOnMegaETH |-> [t \in Tokens |-> FALSE],
      blockRoots |-> [b \in Blocks |-> ZeroHash],
      blockRootConsumed |-> [b \in Blocks |-> FALSE],
      blockRootMetadata |-> [b \in Blocks |-> ZeroRootMetadata],
      lockData |-> [h \in {} |-> ZeroLockData],
      rootSubmitter |-> Deployer,
      paused |-> FALSE,
      NFTLocked |-> EmptyBag,
      NFTUnlocked |-> EmptyBag,
      lockLog |-> <<>>,
      unlockLog |-> <<>>,
      BlockRootSet |-> {},
      Airdropped |-> {},
      unlockBlock |-> [h \in {} |-> 0],
      sent |-> 0 ]

\* the relay's database: lock_events in the order of created_at,
\* merkle_proofs by lock_hash, block_roots by (block_number, source_chain,
\* destination_chain), unlock_events and failed_transactions as the bags of
\* their rows (the tables have no unique key), relayer_transactions by
\* tx_hash
EmptyDb ==
    [ lock_events |-> <<>>,
      merkle_proofs |-> [h \in {} |-> 0],
      block_roots |-> [k \in {} |-> 0],
      unlock_events |-> EmptyBag,
      relayer_transactions |-> [x \in {} |-> 0],
      failed_transactions |-> EmptyBag ]

\* the relay's two job queues, each the bag of the jobs waiting (a job is
\* added as often as add() is called), each job with the number of times
\* it has thrown
EmptyQueue == [proofQueue |-> EmptyBag, rootQueue |-> EmptyBag]

\* nFaults counts the errors and stops the run has seen that are no reverts
\* (a node or the database that fails to answer, the process killed);
\* nOverlaps counts the calls of the relay that started while another call
\* of the relay was in flight;
\* checkpoint is, per chain, the block of the listener's last
\* db.updateLastProcessedBlock call (0: none yet), which the database does
\* not keep.

\* the memory of the relay's process, lost when it stops: the proof
\* generator's `processing` set of keys and the calls of
\* generateProofForBlock in flight past their guard (builds); the calls of
\* submitBlockRoot in flight, by workers and by monitor loops (calls, a
\* bag); the relayer's isRunning, config.safety.pauseOnError as the process
\* read it from its environment, and how many of its monitor loops are in
\* start(), at the read of the pending rows, at the alert of the catch
\* block and asleep (between two turns, or for the pause after an error);
\* and each listener's isRunning, the timers setInterval has set and
\* nothing has cleared (timers), whether the handle in this.pollingInterval
\* is the handle of one of them (pollingInterval), lastProcessedBlock (0:
\* null) and its calls in flight (start() and the timers' callbacks, a
\* bag).  Each call in flight is held with the await it is at and what it
\* has read.  raced and starts are history: the commitments two calls of
\* submitBlockRoot were in flight for at the same time, and the calls of
\* start() (of a listener, of the relayer) made in the run.
EmptyMonitor ==
    [isRunning |-> FALSE, pauseOnError |-> FALSE, starting |-> 0, reading |-> 0,
     alerting |-> 0, sleeping |-> 0]

EmptyListener ==
    [isRunning |-> FALSE, timers |-> 0, pollingInterval |-> FALSE,
     lastProcessedBlock |-> 0, calls |-> EmptyBag]

EmptyProc ==
    [ processing |-> {},
      builds |-> {},
      calls |-> EmptyBag,
      raced |-> {},
      starts |-> 0,
      monitor |-> EmptyMonitor,
      listener |-> [c \in Chains |-> EmptyListener] ]

\* the chains after deployment: nothing bridged yet
ChainInit ==
    /\ ledger = [c \in Chains |-> InitLedger(c)]
    /\ blockNumber = [c \in Chains |-> 1]
    /\ nLocks = 0
    /\ nForged = 0
    /\ nAdmin = 0

Init ==
    /\ ChainInit
    /\ db = EmptyDb
    /\ queue = EmptyQueue
    /\ proc = EmptyProc
    /\ nFaults = 0
    /\ nOverlaps = 0
    /\ checkpoint = [c \in Chains |-> 0]

----------------------------------------------------------------------------
(* The NFT collection Bad_Bunnz: OpenZeppelin's ERC721 under ERC721C (no   *)
(* transfer validator configured, so its hook lets every transfer pass);   *)
(* the enumeration the hook of Bad_Bunnz keeps is left out.                *)

\* ERC721._isApprovedOrOwner(spender, tokenId) for a token that exists
IsApprovedOrOwner(st, spender, tokenId) ==
    \/ spender = st.nftOwner[tokenId]
    \/ <<st.nftOwner[tokenId], spender>> \in st.operatorApprovals
    \/ st.tokenApprovals[tokenId] = spender

\* ERC721.transferFrom(from, to, tokenId), msg.sender = spender
NftTransferFrom(st, spender, from, to, tokenId) ==
    IF st.nftOwner[tokenId] = ZeroAddress
    THEN Revert(st, "ERC721: invalid token ID")
    ELSE IF ~IsApprovedOrOwner(st, spender, tokenId)
    THEN Revert(st, "ERC721: caller is not token owner or approved")
    ELSE IF st.nftOwner[tokenId] # from
    THEN Revert(st, "ERC721: transfer from incorrect owner")
    ELSE IF to = ZeroAddress
    THEN Revert(st, "ERC721: transfer to the zero address")
    ELSE Success([st EXCEPT !.nftOwner[tokenId] = to,
                            !.tokenApprovals[tokenId] = ZeroAddress])

\* ERC721.approve(to, tokenId), msg.sender = caller
NftApprove(st, caller, to, tokenId) ==
    IF st.nftOwner[tokenId] = ZeroAddress
    THEN Revert(st, "ERC721: invalid token ID")
    ELSE IF to = st.nftOwner[tokenId]
    THEN Revert(st, "ERC721: approval to current owner")
    ELSE IF ~( \/ caller = st.nftOwner[tokenId]
               \/ <<st.nftOwner[tokenId], caller>> \in st.operatorApprovals )
    THEN Revert(st, "ERC721: approve caller is not token owner or approved for all")
    ELSE Success([st EXCEPT !.tokenApprovals[tokenId] = to])

\* ERC721.setApprovalForAll(operator, approved), msg.sender = caller
NftSetApprovalForAll(st, caller, operator, approved) ==
    IF caller = operator
    THEN Revert(st, "ERC721: approve to caller")
    ELSE Success([st EXCEPT !.operatorApprovals =
                    IF approved THEN @ \cup {<<caller, operator>>}
                    ELSE @ \ {<<caller, operator>>}])

\* ERC721._safeMint(to, tokenId): _mint, then the receiver check, which a
\* contract without onERC721Received fails
NftSafeMint(st, to, tokenId) ==
    IF to = ZeroAddress
    THEN Revert(st, "ERC721: mint to the zero address")
    ELSE IF st.nftOwner[tokenId] # ZeroAddress
    THEN Revert(st, "ERC721: token already minted")
    ELSE IF to \in st.contracts
    THEN Revert(st, "ERC721: transfer to non ERC721Receiver implementer")
    ELSE Success([st EXCEPT !.nftOwner[tokenId] = to])

\* Bad_Bunnz.bridgeMint(to, tokenId), msg.sender = caller
NftBridgeMint(st, caller, to, tokenId) ==
    IF caller # st.bridgeAddress
    THEN Revert(st, "Unauthorized")
    ELSE NftSafeMint(st, to, tokenId)

\* Bad_Bunnz.bridgeBurn(tokenId), msg.sender = caller: ERC721._burn, which
\* asks no approval of the token's owner
NftBridgeBurn(st, caller, tokenId) ==
    IF caller # st.bridgeAddress
    THEN Revert(st, "Unauthorized")
    ELSE IF st.nftOwner[tokenId] = ZeroAddress
    THEN Revert(st, "ERC721: invalid token ID")
    ELSE Success([st EXCEPT !.nftOwner[tokenId] = ZeroAddress,
                            !.tokenApprovals[tokenId] = ZeroAddress])

\* Bad_Bunnz.setBridgeAddress(_bridgeAddress), msg.sender = caller
NftSetBridgeAddress(st, caller, newBridge) ==
    IF caller # Deployer THEN Revert(st, "Ownable: caller is not the owner")
    ELSE IF newBridge = ZeroAddress
    THEN Revert(st, "Bridge address cannot be zero")
    ELSE IF st.bridgeAddress # ZeroAddress
    THEN Revert(st, "Bridge address already set")
    ELSE Success([st EXCEPT !.bridgeAddress = newBridge])

\* uint256 totalToMint of Bad_Bunnz.airdrop, from array i on
RECURSIVE TotalToMint(_, _)
TotalToMint(tokenIds, i) ==
    IF i > Len(tokenIds) THEN 0
    ELSE Len(tokenIds[i]) + TotalToMint(tokenIds, i + 1)

\* the two nested loops of Bad_Bunnz.airdrop from recipients[i], tokenIds[i][j]
\* on; the first failing mint ends them
RECURSIVE AirdropLoop(_, _, _, _, _)
AirdropLoop(st, recipients, tokenIds, i, j) ==
    IF i > Len(recipients)
    THEN Success(st)
    ELSE IF j > Len(tokenIds[i])
    THEN AirdropLoop(st, recipients, tokenIds, i + 1, 1)
    ELSE LET m == NftSafeMint(st, recipients[i], tokenIds[i][j])
         IN IF ~m.ok THEN m
            ELSE AirdropLoop([m.st EXCEPT !.Airdropped = @ \cup {tokenIds[i][j]}],
                             recipients, tokenIds, i, j + 1)

\* Bad_Bunnz.airdrop(recipients, tokenIds), msg.sender = caller: the
\* collection owner's mint, outside the bridge
NftAirdrop(st, caller, recipients, tokenIds) ==
    IF caller # Deployer THEN Revert(st, "Ownable: caller is not the owner")
    ELSE IF Len(recipients) # Len(tokenIds)
    THEN Revert(st, "Recipients and tokenIds arrays must have the same length")
    ELSE IF st.mintedSupply + TotalToMint(tokenIds, 1) > MaxSupply
    THEN Revert(st, "ExceedsMaxSupply")
    ELSE LET r == AirdropLoop(st, recipients, tokenIds, 1, 1)
         IN IF ~r.ok THEN Revert(st, r.reason)
            ELSE Success([r.st EXCEPT !.mintedSupply = @ + TotalToMint(tokenIds, 1)])

----------------------------------------------------------------------------
(* Locks *)

\* emit NFTLocked: one more copy of the event, the last of the chain's log
EmitLocked(st, d) ==
    [st EXCEPT !.NFTLocked = BagAdd(st.NFTLocked, d),
               !.lockLog = Append(st.lockLog, d)]

\* the body of a lock once its checks passed: custody flag, lock hash,
\* lockData record, NFTLocked event
RecordLock(st, tokenId, sender, recipient, bn, lockHash) ==
    LET d == MkLockData(tokenId, sender, recipient, bn, lockHash)
        st1 == [st EXCEPT !.lockedTokens[tokenId] = TRUE]
        st2 == PutLockData(st1, d)
    IN EmitLocked(st2, d)

\* EthereumBridge.lockNFT with the lockedTokens check left out
EthLockIgnoringLocked(st, sender, tokenId, recipient, bn) ==
    IF st.paused THEN Revert(st, "Pausable: paused")
    ELSE IF recipient = ZeroAddress THEN Revert(st, "Invalid recipient")
    ELSE LET t == NftTransferFrom(st, BridgeAddress(ETH), sender, BridgeAddress(ETH), tokenId)
         IN IF ~t.ok THEN Revert(st, t.reason)
            ELSE Success(RecordLock(t.st, tokenId, sender, recipient, bn,
                    LockHash(tokenId, sender, recipient, bn, BridgeAddress(ETH))))

\* EthereumBridge.lockNFT(tokenId, recipient), msg.sender = sender
EthLockNFT(st, sender, tokenId, recipient, bn) ==
    IF st.paused THEN Revert(st, "Pausable: paused")
    ELSE IF st.lockedTokens[tokenId] THEN Revert(st, "Token already locked")
    ELSE IF recipient = ZeroAddress THEN Revert(st, "Invalid recipient")
    ELSE LET t == NftTransferFrom(st, BridgeAddress(ETH), sender, BridgeAddress(ETH), tokenId)
         IN IF ~t.ok THEN Revert(st, t.reason)
            ELSE Success(RecordLock(t.st, tokenId, sender, recipient, bn,
                    LockHash(tokenId, sender, recipient, bn, BridgeAddress(ETH))))

\* MegaEthBridge.lockNFTForEthereum that marks the token it locks as no
\* longer active on MegaETH
MegaLockResettingActive(st, sender, tokenId, recipient, bn) ==
    IF st.paused THEN Revert(st, "Pausable: paused")
    ELSE IF st.lockedTokens[tokenId] THEN Revert(st, "Token already locked")
    ELSE IF ~st.activeOnMegaETH[tokenId] THEN Revert(st, "Token not active on MegaETH")
    ELSE IF recipient = ZeroAddress THEN Revert(st, "Invalid recipient")
    ELSE IF st.nftOwner[tokenId] = ZeroAddress THEN Revert(st, "ERC721: invalid token ID")
    ELSE IF st.nftOwner[tokenId] # sender THEN Revert(st, "Not token owner")
    ELSE LET t == NftTransferFrom(st, BridgeAddress(MEGA), sender, BridgeAddress(MEGA), tokenId)
             st1 == [t.st EXCEPT !.activeOnMegaETH[tokenId] = FALSE]
         IN IF ~t.ok THEN Revert(st, t.reason)
            ELSE Success(RecordLock(st1, tokenId, sender, recipient, bn,
                    LockHash(tokenId, sender, recipient, bn, BridgeAddress(MEGA))))

\* MegaEthBridge.lockNFTForEthereum(tokenId, recipient), msg.sender = sender
MegaLockNFTForEthereum(st, sender, tokenId, recipient, bn) ==
    IF st.paused THEN Revert(st, "Pausable: paused")
    ELSE IF st.lockedTokens[tokenId] THEN Revert(st, "Token already locked")
    ELSE IF ~st.activeOnMegaETH[tokenId] THEN Revert(st, "Token not active on MegaETH")
    ELSE IF recipient = ZeroAddress THEN Revert(st, "Invalid recipient")
    ELSE IF st.nftOwner[tokenId] = ZeroAddress THEN Revert(st, "ERC721: invalid token ID")
    ELSE IF st.nftOwner[tokenId] # sender THEN Revert(st, "Not token owner")
    ELSE LET t == NftTransferFrom(st, BridgeAddress(MEGA), sender, BridgeAddress(MEGA), tokenId)
         IN IF ~t.ok THEN Revert(st, t.reason)
            ELSE Success(RecordLock(t.st, tokenId, sender, recipient, bn,
                    LockHash(tokenId, sender, recipient, bn, BridgeAddress(MEGA))))

\* one turn of the loop of EthereumBridge.batchLockNFT, i counted from 1
\* here and from 0 in the hash, as in the code
EthBatchLockElement(st, sender, tokenId, recipient, bn, i) ==
    IF st.lockedTokens[tokenId] THEN Revert(st, "Token already locked")
    ELSE LET t == NftTransferFrom(st, BridgeAddress(ETH), sender, BridgeAddress(ETH), tokenId)
         IN IF ~t.ok THEN Revert(st, t.reason)
            ELSE Success(RecordLock(t.st, tokenId, sender, recipient, bn,
                    BatchLockHash(tokenId, sender, recipient, bn, BridgeAddress(ETH), i - 1)))

\* one turn of the loop of MegaEthBridge.batchLockNFTForEthereum
MegaBatchLockElement(st, sender, tokenId, recipient, bn, i) ==
    IF st.lockedTokens[tokenId] THEN Revert(st, "Token already locked")
    ELSE IF st.nftOwner[tokenId] = ZeroAddress THEN Revert(st, "ERC721: invalid token ID")
    ELSE IF st.nftOwner[tokenId] # sender THEN Revert(st, "Not token owner")
    ELSE LET t == NftTransferFrom(st, BridgeAddress(MEGA), sender, BridgeAddress(MEGA), tokenId)
         IN IF ~t.ok THEN Revert(st, t.reason)
            ELSE Success(RecordLock(t.st, tokenId, sender, recipient, bn,
                    BatchLockHash(tokenId, sender, recipient, bn, BridgeAddress(MEGA), i - 1)))

BatchLockElement(c, st, sender, tokenId, recipient, bn, i) ==
    IF c = ETH
    THEN EthBatchLockElement(st, sender, tokenId, recipient, bn, i)
    ELSE MegaBatchLockElement(st, sender, tokenId, recipient, bn, i)

\* the for loop of a batch lock from element i on; the first failing
\* element ends it
RECURSIVE BatchLockLoop(_, _, _, _, _, _, _)
BatchLockLoop(c, st, sender, tokenIds, recipient, bn, i) ==
    IF i > Len(tokenIds)
    THEN Success(st)
    ELSE LET r == BatchLockElement(c, st, sender, tokenIds[i], recipient, bn, i)
         IN IF ~r.ok THEN r
            ELSE BatchLockLoop(c, r.st, sender, tokenIds, recipient, bn, i + 1)

\* EthereumBridge.batchLockNFT / MegaEthBridge.batchLockNFTForEthereum
BatchLock(c, st, sender, tokenIds, recipient, bn) ==
    IF st.paused THEN Revert(st, "Pausable: paused")
    ELSE IF recipient = ZeroAddress THEN Revert(st, "Invalid recipient")
    ELSE LET r == BatchLockLoop(c, st, sender, tokenIds, recipient, bn, 1)
         IN IF r.ok THEN r ELSE Revert(st, r.reason)

\* the single-asset lock of the verifier on chain c
Lock(c, st, sender, tokenId, recipient, bn) ==
    IF c = ETH
    THEN EthLockNFT(st, sender, tokenId, recipient, bn)
    ELSE MegaLockNFTForEthereum(st, sender, tokenId, recipient, bn)

----------------------------------------------------------------------------
(* Root submission and clearing *)

\* the loop of setBlockRoot / setMegaEthBlockRoot that caches the records,
\* from element i on
RECURSIVE CacheLocksLoop(_, _, _, _)
CacheLocksLoop(st, blockNo, locks, i) ==
    IF i > Len(locks)
    THEN Success(st)
    ELSE IF locks[i].blockNumber # blockNo
    THEN Revert(st, "Lock block mismatch")
    ELSE CacheLocksLoop(PutLockData(st, locks[i]), blockNo, locks, i + 1)

\* what an accepted submission leaves: root, metadata, cached records, event
AcceptSubmission(st, caller, blockNo, root, lockCount, locks) ==
    LET st1 == [st EXCEPT
                    !.blockRoots[blockNo] = root,
                    !.blockRootMetadata[blockNo] =
                        [submitter |-> caller, lockCount |-> lockCount]]
        r == CacheLocksLoop(st1, blockNo, locks, 1)
    IN IF ~r.ok THEN Revert(st, r.reason)
       ELSE Success([r.st EXCEPT !.BlockRootSet = @ \cup
                        {[blockNumber |-> blockNo, root |-> root,
                          lockCount |-> lockCount, submitter |-> caller,
                          locks |-> locks]}])

\* setBlockRoot that overwrites a root already stored for the block
SetBlockRootOverwriting(st, caller, blockNo, root, lockCount, locks) ==
    IF caller # st.rootSubmitter THEN Revert(st, "BridgeUnauthorized")
    ELSE IF Len(locks) # lockCount THEN Revert(st, "Lock count mismatch")
    ELSE AcceptSubmission(st, caller, blockNo, root, lockCount, locks)

\* setBlockRoot that does not compare locks.length with lockCount
SetBlockRootUncounted(st, caller, blockNo, root, lockCount, locks) ==
    IF caller # st.rootSubmitter THEN Revert(st, "BridgeUnauthorized")
    ELSE IF st.blockRoots[blockNo] # ZeroHash
    THEN Revert(st, "Root already submitted for block")
    ELSE AcceptSubmission(st, caller, blockNo, root, lockCount, locks)

\* MegaEthBridge.setBlockRoot / EthereumBridge.setMegaEthBlockRoot,
\* msg.sender = caller
SetBlockRoot(st, caller, blockNo, root, lockCount, locks) ==
    IF caller # st.rootSubmitter THEN Revert(st, "BridgeUnauthorized")
    ELSE IF st.blockRoots[blockNo] # ZeroHash
    THEN Revert(st, "Root already submitted for block")
    ELSE IF Len(locks) # lockCount THEN Revert(st, "Lock count mismatch")
    ELSE AcceptSubmission(st, caller, blockNo, root, lockCount, locks)

\* clearBlockRoot that does not look at blockRootConsumed
ClearBlockRootEvenIfUsed(st, caller, blockNo) ==
    IF caller # Deployer THEN Revert(st, "Ownable: caller is not the owner")
    ELSE IF st.blockRoots[blockNo] = ZeroHash THEN Revert(st, "Root not set for block")
    ELSE Success([st EXCEPT !.blockRoots[blockNo] = ZeroHash,
                            !.blockRootMetadata[blockNo] = ZeroRootMetadata])

\* MegaEthBridge.clearBlockRoot / EthereumBridge.clearMegaEthBlockRoot
ClearBlockRoot(st, caller, blockNo) ==
    IF caller # Deployer THEN Revert(st, "Ownable: caller is not the owner")
    ELSE IF st.blockRoots[blockNo] = ZeroHash THEN Revert(st, "Root not set for block")
    ELSE IF st.blockRootConsumed[blockNo] THEN Revert(st, "Root already used")
    ELSE Success([st EXCEPT !.blockRoots[blockNo] = ZeroHash,
                            !.blockRootMetadata[blockNo] = ZeroRootMetadata])

----------------------------------------------------------------------------
(* Unlocks.  The arguments of one unlock are a record                      *)
(* [tokenId, recipient, lockHash, blockNumber, proof].                     *)

MkUnlock(tokenId, recipient, lockHash, bn, proof) ==
    [tokenId |-> tokenId, recipient |-> recipient, lockHash |-> lockHash,
     blockNumber |-> bn, proof |-> proof]

\* the NFTUnlocked event, with the block the call named and the branch it
\* took (neither is in the event the contract emits)
UnlockEvent(a, minted) ==
    [tokenId |-> a.tokenId, recipient |-> a.recipient, lockHash |-> a.lockHash,
     blockNumber |-> a.blockNumber, minted |-> minted]

\* emit NFTUnlocked: one more copy of the event, the last of the chain's log
EmitUnlocked(st, e) ==
    [st EXCEPT !.NFTUnlocked = BagAdd(st.NFTUnlocked, e),
               !.unlockLog = Append(st.unlockLog, e)]

\* the checks of an unlock against the cached record alone, the merkle
\* proof not verified
RecordFailureOnly(st, a) ==
    LET recorded == Recorded(st, a.lockHash)
    IN IF recorded.lockHash # a.lockHash THEN "Unknown lock hash"
       ELSE IF recorded.tokenId # a.tokenId THEN "Token mismatch"
       ELSE IF recorded.recipient # a.recipient THEN "Recipient mismatch"
       ELSE IF recorded.blockNumber # a.blockNumber THEN "Block mismatch"
       ELSE ""

\* the checks of an unlock against the cached record and the stored root
RecordAndProofFailure(st, a) ==
    LET recorded == Recorded(st, a.lockHash)
    IN IF recorded.lockHash # a.lockHash THEN "Unknown lock hash"
       ELSE IF recorded.tokenId # a.tokenId THEN "Token mismatch"
       ELSE IF recorded.recipient # a.recipient THEN "Recipient mismatch"
       ELSE IF recorded.blockNumber # a.blockNumber THEN "Block mismatch"
       ELSE IF ~MerkleVerify(a.proof, st.blockRoots[a.blockNumber],
                    LeafHash(a.tokenId, a.recipient, a.lockHash, a.blockNumber))
       THEN "Invalid merkle proof"
       ELSE ""

\* MarkProcessed taking the whole block as processed: its root is consumed,
\* every cached record of the block is marked
MarkBlockProcessed(st, a) ==
    LET H == {h \in DOMAIN st.lockData : st.lockData[h].blockNumber = a.blockNumber}
    IN DeleteLockData(
        [st EXCEPT !.blockRootConsumed[a.blockNumber] = TRUE,
                   !.processedLocks = st.processedLocks \cup H \cup {a.lockHash}],
        a.lockHash)

\* blockRootConsumed, processedLocks, delete lockData
MarkProcessed(st, a) ==
    DeleteLockData(
        [st EXCEPT !.blockRootConsumed[a.blockNumber] = TRUE,
                   !.processedLocks = st.processedLocks \cup {a.lockHash}],
        a.lockHash)

\* EthereumBridge: the part of an unlock after its checks
EthRelease(st, a) ==
    LET st1 == MarkProcessed(st, a)
        st2 == [st1 EXCEPT !.lockedTokens[a.tokenId] = FALSE]
        t == NftTransferFrom(st2, BridgeAddress(ETH), BridgeAddress(ETH), a.recipient, a.tokenId)
    IN IF ~t.ok THEN Revert(st, t.reason)
       ELSE Success(EmitUnlocked(t.st, UnlockEvent(a, FALSE)))

\* the mint or release of MegaEthBridge.unlockNFTWithProof with the custody
\* flag set at the mint, as if the minted asset were in custody
MegaMintMarkingLocked(st, a) ==
    LET st1 == MarkProcessed(st, a)
    IN IF ~st1.activeOnMegaETH[a.tokenId]
       THEN LET m == NftBridgeMint(st1, BridgeAddress(MEGA), a.recipient, a.tokenId)
            IN IF ~m.ok THEN Revert(st, m.reason)
               ELSE Success(EmitUnlocked(
                        [m.st EXCEPT !.activeOnMegaETH[a.tokenId] = TRUE,
                                     !.lockedTokens[a.tokenId] = TRUE],
                        UnlockEvent(a, TRUE)))
       ELSE IF ~st1.lockedTokens[a.tokenId]
       THEN Revert(st, "Token not locked on MegaETH")
       ELSE LET st2 == [st1 EXCEPT !.lockedTokens[a.tokenId] = FALSE]
                t == NftTransferFrom(st2, BridgeAddress(MEGA), BridgeAddress(MEGA), a.recipient, a.tokenId)
            IN IF ~t.ok THEN Revert(st, t.reason)
               ELSE Success(EmitUnlocked(t.st, UnlockEvent(a, FALSE)))

\* MegaEthBridge: the part of an unlock after its checks, mint on the first
\* arrival and release of the locked token afterwards
MegaMintOrRelease(st, a) ==
    LET st1 == MarkProcessed(st, a)
    IN IF ~st1.activeOnMegaETH[a.tokenId]
       THEN LET m == NftBridgeMint(st1, BridgeAddress(MEGA), a.recipient, a.tokenId)
            IN IF ~m.ok THEN Revert(st, m.reason)
               ELSE Success(EmitUnlocked(
                        [m.st EXCEPT !.activeOnMegaETH[a.tokenId] = TRUE],
                        UnlockEvent(a, TRUE)))
       ELSE IF ~st1.lockedTokens[a.tokenId]
       THEN Revert(st, "Token not locked on MegaETH")
       ELSE LET st2 == [st1 EXCEPT !.lockedTokens[a.tokenId] = FALSE]
                t == NftTransferFrom(st2, BridgeAddress(MEGA), BridgeAddress(MEGA), a.recipient, a.tokenId)
            IN IF ~t.ok THEN Revert(st, t.reason)
               ELSE Success(EmitUnlocked(t.st, UnlockEvent(a, FALSE)))

\* EthereumBridge.unlockNFTWithProof
EthUnlockNFTWithProof(st, a) ==
    IF st.paused THEN Revert(st, "Pausable: paused")
    ELSE IF a.lockHash \in st.processedLocks THEN Revert(st, "Lock already processed")
    ELSE IF ~st.lockedTokens[a.tokenId] THEN Revert(st, "Token not locked")
    ELSE IF a.recipient = ZeroAddress THEN Revert(st, "Invalid recipient")
    ELSE IF st.blockRoots[a.blockNumber] = ZeroHash THEN Revert(st, "Block root not set")
    ELSE IF RecordAndProofFailure(st, a) # "" THEN Revert(st, RecordAndProofFailure(st, a))
    ELSE EthRelease(st, a)

\* MegaEthBridge.unlockNFTWithProof with the processedLocks check left out
MegaUnlockWithoutProcessedCheck(st, a) ==
    IF st.paused THEN Revert(st, "Pausable: paused")
    ELSE IF a.recipient = ZeroAddress THEN Revert(st, "Invalid recipient")
    ELSE IF st.blockRoots[a.blockNumber] = ZeroHash THEN Revert(st, "Block root not set")
    ELSE IF RecordAndProofFailure(st, a) # "" THEN Revert(st, RecordAndProofFailure(st, a))
    ELSE MegaMintOrRelease(st, a)

\* MegaEthBridge.unlockNFTWithProof as the comment of pause() describes it:
\* a paused bridge lets unlocks complete
MegaUnlockWhilePaused(st, a) ==
    IF a.lockHash \in st.processedLocks THEN Revert(st, "Lock already processed")
    ELSE IF a.recipient = ZeroAddress THEN Revert(st, "Invalid recipient")
    ELSE IF st.blockRoots[a.blockNumber] = ZeroHash THEN Revert(st, "Block root not set")
    ELSE IF RecordAndProofFailure(st, a) # "" THEN Revert(st, RecordAndProofFailure(st, a))
    ELSE MegaMintOrRelease(st, a)

\* MegaEthBridge.unlockNFTWithProof
MegaUnlockNFTWithProof(st, a) ==
    IF st.paused THEN Revert(st, "Pausable: paused")
    ELSE IF a.lockHash \in st.processedLocks THEN Revert(st, "Lock already processed")
    ELSE IF a.recipient = ZeroAddress THEN Revert(st, "Invalid recipient")
    ELSE IF st.blockRoots[a.blockNumber] = ZeroHash THEN Revert(st, "Block root not set")
    ELSE IF RecordAndProofFailure(st, a) # "" THEN Revert(st, RecordAndProofFailure(st, a))
    ELSE MegaMintOrRelease(st, a)

\* the single unlock of the verifier on chain c
UnlockNFTWithProof(c, st, a) ==
    IF c = ETH THEN EthUnlockNFTWithProof(st, a) ELSE MegaUnlockNFTWithProof(st, a)

\* one turn of the loop of EthereumBridge.batchUnlockNFTWithProof
EthBatchUnlockElement(st, a) ==
    IF a.lockHash \in st.processedLocks THEN Revert(st, "Lock already processed")
    ELSE IF ~st.lockedTokens[a.tokenId] THEN Revert(st, "Token not locked")
    ELSE IF st.blockRoots[a.blockNumber] = ZeroHash THEN Revert(st, "Block root not set")
    ELSE IF RecordAndProofFailure(st, a) # "" THEN Revert(st, RecordAndProofFailure(st, a))
    ELSE EthRelease(st, a)

\* one turn of the loop of MegaEthBridge.batchUnlockNFTWithProof
MegaBatchUnlockElement(st, a) ==
    IF a.lockHash \in st.processedLocks THEN Revert(st, "Lock already processed")
    ELSE IF st.blockRoots[a.blockNumber] = ZeroHash THEN Revert(st, "Block root not set")
    ELSE IF RecordAndProofFailure(st, a) # "" THEN Revert(st, RecordAndProofFailure(st, a))
    ELSE MegaMintOrRelease(st, a)

BatchUnlockElement(c, st, a) ==
    IF c = ETH THEN EthBatchUnlockElement(st, a) ELSE MegaBatchUnlockElement(st, a)

\* the for loop of a batch unlock over the five parallel arrays of b, from
\* element i on; the first failing element ends it
RECURSIVE BatchUnlockLoop(_, _, _, _)
BatchUnlockLoop(c, st, b, i) ==
    IF i > Len(b.lockHashes)
    THEN Success(st)
    ELSE LET a == MkUnlock(b.tokenIds[i], b.recipients[i], b.lockHashes[i],
                           b.blockNumbers[i], b.proofs[i])
             r == BatchUnlockElement(c, st, a)
         IN IF ~r.ok THEN r ELSE BatchUnlockLoop(c, r.st, b, i + 1)

\* a batch unlock that stops at the first failing element and keeps what the
\* elements before it did
BatchUnlockKeepingProgress(c, st, b) ==
    IF st.paused THEN Revert(st, "Pausable: paused")
    ELSE IF ~( /\ Len(b.tokenIds) = Len(b.recipients)
               /\ Len(b.tokenIds) = Len(b.lockHashes)
               /\ Len(b.tokenIds) = Len(b.blockNumbers)
               /\ Len(b.tokenIds) = Len(b.proofs) )
    THEN Revert(st, "Array length mismatch")
    ELSE BatchUnlockLoop(c, st, b, 1)

\* EthereumBridge.batchUnlockNFTWithProof / MegaEthBridge.batchUnlockNFTWithProof
BatchUnlockNFTWithProof(c, st, b) ==
    IF st.paused THEN Revert(st, "Pausable: paused")
    ELSE IF ~( /\ Len(b.tokenIds) = Len(b.recipients)
               /\ Len(b.tokenIds) = Len(b.lockHashes)
               /\ Len(b.tokenIds) = Len(b.blockNumbers)
               /\ Len(b.tokenIds) = Len(b.proofs) )
    THEN Revert(st, "Array length mismatch")
    ELSE LET r == BatchUnlockLoop(c, st, b, 1)
         IN IF r.ok THEN r ELSE Revert(st, r.reason)

----------------------------------------------------------------------------
(* Administration *)

\* pause(), msg.sender = caller
Pause(st, caller) ==
    IF caller # Deployer THEN Revert(st, "Ownable: caller is not the owner")
    ELSE IF st.paused THEN Revert(st, "Pausable: paused")
    ELSE Success([st EXCEPT !.paused = TRUE])

\* unpause(), msg.sender = caller
Unpause(st, caller) ==
    IF caller # Deployer THEN Revert(st, "Ownable: caller is not the owner")
    ELSE IF ~st.paused THEN Revert(st, "Pausable: not paused")
    ELSE Success([st EXCEPT !.paused = FALSE])

\* setRootSubmitter(newRootSubmitter), msg.sender = caller
SetRootSubmitter(st, caller, newRootSubmitter) ==
    IF caller # Deployer THEN Revert(st, "Ownable: caller is not the owner")
    ELSE IF newRootSubmitter = ZeroAddress
    THEN Revert(st, "Root submitter cannot be zero")
    ELSE Success([st EXCEPT !.rootSubmitter = newRootSubmitter])

----------------------------------------------------------------------------
(* The commitment the relay builds for a block: the leaves of the block's  *)
(* locks, the tree merkletreejs builds over them with sortPairs (an odd    *)
(* last node moves up unpaired), its root and the proof of each leaf.      *)

\* the leaf of one lock record
LeafOf(d) == LeafHash(d.tokenId, d.recipient, d.lockHash, d.blockNumber)

LeavesOf(locks) == [i \in 1..Len(locks) |-> LeafOf(locks[i])]

\* merkletreejs with sortPairs left off: the pair is hashed in tree order
TreeHashPairUnsorted(a, b) == <<4>> \o a \o b

\* merkletreejs with sortPairs: true: the two nodes are sorted
\* (Buffer.compare), concatenated and hashed
TreeHashPair(a, b) ==
    IF HashLess(b, a) THEN <<4>> \o b \o a ELSE <<4>> \o a \o b

NextLayer(layer) ==
    [k \in 1..((Len(layer) + 1) \div 2) |->
        IF 2 * k <= Len(layer)
        THEN TreeHashPair(layer[2 * k - 1], layer[2 * k])
        ELSE layer[2 * k - 1]]

RECURSIVE MerkleRoot(_)
MerkleRoot(layer) ==
    IF Len(layer) = 1 THEN layer[1] ELSE MerkleRoot(NextLayer(layer))

RECURSIVE MerkleProofOf(_, _)
MerkleProofOf(layer, i) ==
    IF Len(layer) = 1
    THEN <<>>
    ELSE LET sibling == IF i % 2 = 0 THEN <<layer[i - 1]>>
                        ELSE IF i + 1 <= Len(layer) THEN <<layer[i + 1]>>
                        ELSE <<>>
         IN sibling \o MerkleProofOf(NextLayer(layer), (i + 1) \div 2)

\* the records of a set of locks in the order of their lock hashes
RECURSIVE SortedSeq(_)
SortedSeq(S) ==
    IF S = {}
    THEN <<>>
    ELSE LET m == CHOOSE d \in S :
                    \A e \in S \ {d} : HashLess(d.lockHash, e.lockHash)
         IN <<m>> \o SortedSeq(S \ {m})

\* the records of a set of locks in every order they may have been recorded in
RECURSIVE Orders(_)
Orders(S) ==
    IF S = {}
    THEN {<<>>}
    ELSE UNION { {<<d>> \o q : q \in Orders(S \ {d})} : d \in S }

----------------------------------------------------------------------------
(* The inputs of the calls *)

\* the locks that succeeded on chain c (its NFTLocked events)
RealLocks(c) == DOMAIN ledger[c].NFTLocked

LocksAt(c, bn) == {d \in RealLocks(c) : d.blockNumber = bn}

\* the distinct elements of q, each at the place of its first copy
RECURSIVE FirstOccurrences(_)
FirstOccurrences(q) ==
    IF q = <<>>
    THEN <<>>
    ELSE LET r == FirstOccurrences(SubSeq(q, 1, Len(q) - 1))
             last == q[Len(q)]
         IN IF \E i \in 1..Len(r) : r[i] = last THEN r ELSE Append(r, last)

\* what an honest relay submits to chain c for block bn of the other chain
\* once it has recorded the whole block: the block's locks in the order it
\* recorded them (created_at), the order of the chain's log, a lock hash
\* that comes again left out (ON CONFLICT (lock_hash) DO NOTHING)
HonestLocks(c, bn) ==
    FirstOccurrences(SelectSeq(ledger[Other(c)].lockLog,
                               LAMBDA d : d.blockNumber = bn))

\* a submission to chain c for block bn is honest when its root is the root
\* of a tree over locks that did happen in block bn of the other chain, in
\* some order (the relay builds its tree over the locks it has recorded by
\* then), and its records are records of such locks
IsHonestSubmission(c, bn, s) ==
    /\ \E S \in SUBSET LocksAt(Other(c), bn) :
            /\ S # {}
            /\ \E q \in Orders(S) : s.root = MerkleRoot(LeavesOf(q))
    /\ \A i \in 1..Len(s.locks) : s.locks[i] \in LocksAt(Other(c), bn)
    /\ Len(s.locks) > 0

\* a lock of token 1 to user 2 that nobody made on the other chain
FakeLock(c, bn) ==
    MkLockData(1, Deployer, 2, bn, LockHash(1, Deployer, 2, bn, BridgeAddress(Other(c))))

OtherUser(u) == IF u = 1 THEN 2 ELSE 1
OtherToken(t) == IF t = 1 THEN 2 ELSE 1
OtherBlock(bn) == IF bn = 1 THEN 2 ELSE 1

MkSubmission(root, lockCount, locks) ==
    [root |-> root, lockCount |-> lockCount, locks |-> locks]

\* the submissions tried on chain c for block bn: the honest one; honest
\* root with wrong, missing or miscounted records, or with a last record of
\* another block; the all-zero root; and
\* roots that commit to a lock that never happened, to a lock made on chain
\* c itself, or again to a lock already processed under another block
Submissions(c, bn) ==
    LET H == HonestLocks(c, bn)
        r == MerkleRoot(LeavesOf(H))
        fake == FakeLock(c, bn)
    IN  (IF H = <<>> THEN {} ELSE
               { MkSubmission(r, Len(H), H),
                 MkSubmission(r, Len(H),
                    [H EXCEPT ![1].recipient = OtherUser(H[1].recipient)]),
                 MkSubmission(r, 0, <<>>),
                 MkSubmission(r, Len(H) + 1, H),
                 MkSubmission(r, Len(H),
                    [H EXCEPT ![Len(H)].blockNumber = OtherBlock(bn)]),
                 MkSubmission(ZeroHash, Len(H), H) })
        \cup { MkSubmission(LeafOf(fake), 1, <<fake>>) }
        \cup { MkSubmission(LeafOf(d), 0, <<>>) : d \in LocksAt(c, bn) }
        \cup { MkSubmission(LeafOf([d EXCEPT !.blockNumber = bn]), 1,
                            <<[d EXCEPT !.blockNumber = bn]>>) :
                 d \in {e \in RealLocks(Other(c)) :
                            /\ e.lockHash \in ledger[c].processedLocks
                            /\ e.blockNumber # bn} }

\* the records an unlock on chain c may be tried for: those cached on c and
\* those of the locks made on the other chain
KnownRecords(c) ==
    {ledger[c].lockData[h] : h \in DOMAIN ledger[c].lockData}
        \cup RealLocks(Other(c))

\* the proofs tried for record d: none, the leaf of another record of the
\* same block, the proof of the honest tree
ProofChoices(c, d) ==
    {<<>>}
        \cup {<<LeafOf(e)>> : e \in {x \in KnownRecords(c) :
                                        x.blockNumber = d.blockNumber /\ x # d}}
        \cup LET H == HonestLocks(c, d.blockNumber)
             IN {MerkleProofOf(LeavesOf(H), i) : i \in {j \in 1..Len(H) : H[j] = d}}

\* a proof of ProofChoices that verifies d against the root stored on c, when
\* there is one
BestProof(c, d) ==
    LET good == {p \in ProofChoices(c, d) :
                    MerkleVerify(p, ledger[c].blockRoots[d.blockNumber], LeafOf(d))}
    IN IF good = {} THEN <<>> ELSE CHOOSE p \in good : TRUE

\* the unlocks tried on chain c: every known record as recorded, with each
\* proof; and with one argument changed
UnlockCalls(c) ==
    UNION { LET best == BestProof(c, d)
            IN { MkUnlock(d.tokenId, d.recipient, d.lockHash, d.blockNumber, p) :
                    p \in ProofChoices(c, d) }
               \cup
               { MkUnlock(OtherToken(d.tokenId), d.recipient, d.lockHash, d.blockNumber, best),
                 MkUnlock(d.tokenId, OtherUser(d.recipient), d.lockHash, d.blockNumber, best),
                 MkUnlock(d.tokenId, ZeroAddress, d.lockHash, d.blockNumber, best),
                 MkUnlock(d.tokenId, d.recipient, d.lockHash, OtherBlock(d.blockNumber), best) } :
            d \in KnownRecords(c) }

\* the elements put in a batch unlock on chain c: every cached or processed
\* record as recorded, with a proof that verifies when one is known; and one
\* of them with a proof that does not verify
BatchElements(c) ==
    LET st == ledger[c]
        D == {d \in KnownRecords(c) :
                d.lockHash \in (DOMAIN st.lockData) \cup st.processedLocks}
    IN  {MkUnlock(d.tokenId, d.recipient, d.lockHash, d.blockNumber, BestProof(c, d)) : d \in D}
        \cup (IF D = {} THEN {} ELSE
                LET d == CHOOSE x \in D : TRUE
                IN {MkUnlock(d.tokenId, d.recipient, d.lockHash, d.blockNumber, <<ZeroHash>>)})

\* all sequences over S of length at most n
RECURSIVE SeqsUpTo(_, _)
SeqsUpTo(S, n) ==
    IF n = 0
    THEN {<<>>}
    ELSE LET shorter == SeqsUpTo(S, n - 1)
         IN shorter \cup {Append(q, x) : q \in {r \in shorter : Len(r) = n - 1}, x \in S}

\* the five parallel arrays of a batch unlock over the elements es
MkBatch(es) ==
    [tokenIds |-> [i \in 1..Len(es) |-> es[i].tokenId],
     recipients |-> [i \in 1..Len(es) |-> es[i].recipient],
     lockHashes |-> [i \in 1..Len(es) |-> es[i].lockHash],
     blockNumbers |-> [i \in 1..Len(es) |-> es[i].blockNumber],
     proofs |-> [i \in 1..Len(es) |-> es[i].proof]]

\* the batches tried on chain c, and the one-element ones with the proofs
\* array left empty
BatchCalls(c) ==
    LET B == {MkBatch(es) : es \in SeqsUpTo(BatchElements(c), MaxBatch)}
    IN B \cup {[b EXCEPT !.proofs = <<>>] : b \in {x \in B : Len(x.proofs) = 1}}

\* who calls the entry points only the owner or the root submitter may use
AdminCallers == {Deployer, 1}

\* the recipients named in a lock
LockRecipients == {ZeroAddress, 1}

\* the tokenIds arrays of the batch locks tried
BatchLockInputs == SeqsUpTo(Tokens, MaxBatch)

----------------------------------------------------------------------------
(* The actions: one transaction each *)

\* the relay's own state
relayVars == <<db, queue, proc, nFaults, nOverlaps, checkpoint>>

\* the ledger of a chain after transactions mined in block bn: the unlocks
\* new in st have their receipts in that block
Mined(st, bn) ==
    [st EXCEPT !.unlockBlock =
        [h \in st.processedLocks |->
            IF h \in DOMAIN st.unlockBlock THEN st.unlockBlock[h] ELSE bn]]

\* a transaction on chain c alone: the relay's database and queues stay; a
\* call that reverts leaves the chain as it was and is no step
Commit(c, out) ==
    /\ out.ok
    /\ ledger' = [ledger EXCEPT ![c] = Mined(out.st, blockNumber[c])]
    /\ UNCHANGED relayVars

\* what the run has spent of MaxBudget
Spent == nLocks + nAdmin + ForgeCost * nForged

\* a block is mined on chain c
Tick ==
    \E c \in Chains :
        /\ blockNumber[c] < MaxBlock
        /\ blockNumber' = [blockNumber EXCEPT ![c] = @ + 1]
        /\ UNCHANGED <<ledger, nLocks, nForged, nAdmin, db, queue, proc, nFaults, nOverlaps,
                       checkpoint>>

LockNFT ==
    /\ Spent < MaxBudget
    /\ \E c \in Chains, sender \in Users, tokenId \in Tokens,
          recipient \in LockRecipients :
        LET out == Lock(c, ledger[c], sender, tokenId, recipient, blockNumber[c])
        IN /\ Commit(c, out)
           /\ nLocks' = IF out.ok THEN nLocks + 1 ELSE nLocks
           /\ UNCHANGED <<blockNumber, nForged, nAdmin>>

BatchLockNFT ==
    \E tokenIds \in BatchLockInputs :
        /\ Spent + Len(tokenIds) <= MaxBudget
        /\ \E c \in Chains, sender \in Users, recipient \in LockRecipients :
            LET out == BatchLock(c, ledger[c], sender, tokenIds, recipient, blockNumber[c])
            IN /\ Commit(c, out)
               /\ nLocks' = IF out.ok THEN nLocks + Len(tokenIds) ELSE nLocks
               /\ UNCHANGED <<blockNumber, nForged, nAdmin>>

\* a submission that is accepted and is not the honest one is paid for
SubmitRoot ==
    \E c \in Chains, bn \in Blocks :
        \E s \in Submissions(c, bn), caller \in AdminCallers :
            LET out == SetBlockRoot(ledger[c], caller, bn, s.root, s.lockCount, s.locks)
                forged == out.ok /\ ~IsHonestSubmission(c, bn, s)
            IN /\ forged => Spent + ForgeCost <= MaxBudget
               /\ Commit(c, out)
               /\ nForged' = IF forged THEN nForged + 1 ELSE nForged
               /\ UNCHANGED <<blockNumber, nLocks, nAdmin>>

Unlock ==
    \E c \in Chains :
        \E a \in UnlockCalls(c) :
            /\ Commit(c, UnlockNFTWithProof(c, ledger[c], a))
            /\ UNCHANGED <<blockNumber, nLocks, nForged, nAdmin>>

BatchUnlock ==
    \E c \in Chains :
        \E b \in BatchCalls(c) :
            /\ Commit(c, BatchUnlockNFTWithProof(c, ledger[c], b))
            /\ UNCHANGED <<blockNumber, nLocks, nForged, nAdmin>>

\* a call of an entry point that is paid from the budget (the owner's, a
\* holder's approvals of single tokens and transfers, a bridge account's
\* mints and burns); out is its outcome
AdminStep(c, out) ==
    /\ Spent < MaxBudget
    /\ Commit(c, out)
    /\ nAdmin' = IF out.ok THEN nAdmin + 1 ELSE nAdmin
    /\ UNCHANGED <<blockNumber, nLocks, nForged>>

\* the owner clears the root of a block
ClearRoot ==
    \E c \in Chains, caller \in AdminCallers, bn \in Blocks :
        AdminStep(c, ClearBlockRoot(ledger[c], caller, bn))

PauseBridge ==
    \E c \in Chains, caller \in AdminCallers : AdminStep(c, Pause(ledger[c], caller))

UnpauseBridge ==
    \E c \in Chains, caller \in AdminCallers : AdminStep(c, Unpause(ledger[c], caller))

ChangeRootSubmitter ==
    \E c \in Chains, caller \in AdminCallers, new \in {ZeroAddress, 1, Deployer} :
        AdminStep(c, SetRootSubmitter(ledger[c], caller, new))

\* the airdrops tried: token 1 or both tokens to one recipient, user 1 or
\* the verifier; one token each to the two users; and a recipient without
\* its array of token ids
AirdropInputs(c) ==
    { <<(<<r>>), (<<ts>>)>> : r \in {1, BridgeAddress(c)},
                              ts \in {<<1>>, <<1, 2>>} }
        \cup { << <<1, 2>>, << <<1>>, <<2>> >> >>, << <<1>>, <<>> >> }

\* the collection owner airdrops tokens on chain c
Airdrop ==
    \E c \in Chains, caller \in AdminCallers :
        \E input \in AirdropInputs(c) :
            AdminStep(c, NftAirdrop(ledger[c], caller, input[1], input[2]))

\* the collection owner names the bridge of the collection on chain c: the
\* verifier, or an account of its choice (user 2)
SetBridgeAddress ==
    \E c \in Chains, caller \in AdminCallers :
        \E newBridge \in {ZeroAddress, BridgeAddress(c), 2} :
            AdminStep(c, NftSetBridgeAddress(ledger[c], caller, newBridge))

\* an account calls bridgeMint of the collection on chain c itself
BridgeMint ==
    \E c \in Chains, caller \in Users, to \in Users, tokenId \in Tokens :
        AdminStep(c, NftBridgeMint(ledger[c], caller, to, tokenId))

\* an account calls bridgeBurn of the collection on chain c itself
BridgeBurn ==
    \E c \in Chains, caller \in Users, tokenId \in Tokens :
        AdminStep(c, NftBridgeBurn(ledger[c], caller, tokenId))

\* no account but the verifier has been named bridge of a collection
BridgeIsVerifier ==
    \A c \in Chains : ledger[c].bridgeAddress \in {ZeroAddress, BridgeAddress(c)}

\* the addresses that hold a token of the collection on chain c
Holders(c) == {ledger[c].nftOwner[t] : t \in Tokens} \ {ZeroAddress}

\* a holder approves the verifier of its chain for one of its tokens
Approve ==
    \E c \in Chains, sender \in Users, tokenId \in Tokens :
        AdminStep(c, NftApprove(ledger[c], sender, BridgeAddress(c), tokenId))

\* a holder grants the verifier of its chain all its tokens
SetApprovalForAll ==
    \E c \in Chains, sender \in Users :
        /\ sender \in Holders(c)
        /\ Commit(c, NftSetApprovalForAll(ledger[c], sender, BridgeAddress(c), TRUE))
        /\ UNCHANGED <<blockNumber, nLocks, nForged, nAdmin>>

\* a holder transfers a token to the other user or to nobody
Transfer ==
    \E c \in Chains, sender \in Users, tokenId \in Tokens, to \in {ZeroAddress, 1, 2} :
        AdminStep(c, NftTransferFrom(ledger[c], sender, sender, to, tokenId))

\* a user locks a token and names the verifier of the other chain as the
\* recipient
LockNFTToVerifier ==
    /\ Spent < MaxBudget
    /\ \E c \in Chains, sender \in Users, tokenId \in Tokens :
        LET out == Lock(c, ledger[c], sender, tokenId, BridgeAddress(Other(c)),
                        blockNumber[c])
        IN /\ Commit(c, out)
           /\ nLocks' = IF out.ok THEN nLocks + 1 ELSE nLocks
           /\ UNCHANGED <<blockNumber, nForged, nAdmin>>

Next ==
    \/ Tick
    \/ LockNFT
    \/ LockNFTToVerifier
    \/ BatchLockNFT
    \/ SubmitRoot
    \/ ClearRoot
    \/ Unlock
    \/ BatchUnlock
    \/ PauseBridge
    \/ UnpauseBridge
    \/ ChangeRootSubmitter
    \/ Airdrop
    \/ SetBridgeAddress
    \/ BridgeMint
    \/ BridgeBurn
    \/ Approve
    \/ SetApprovalForAll
    \/ Transfer

Spec == Init /\ [][Next]_vars

----------------------------------------------------------------------------
(* Properties *)

\* the NFTUnlocked events of chain c that name lock hash h
UnlocksOf(c, h) ==
    LET E == {e \in DOMAIN ledger[c].NFTUnlocked : e.lockHash = h}
    IN [e \in E |-> ledger[c].NFTUnlocked[e]]

\* how many unlocks of lock hash h succeeded on chain c
UnlockCount(c, h) == BagSize(UnlocksOf(c, h))

\* the outcome of a call is a rejection that changed nothing
Rejected(c, out) == ~out.ok /\ out.st = ledger[c]

\* the lock hashes batch b names
BatchHashes(b) == {b.lockHashes[i] : i \in 1..Len(b.lockHashes)}

C1_OncePerHash ==
    \A c \in Chains :
        LET st == ledger[c]
        IN /\ \A e \in DOMAIN st.NFTUnlocked :
                /\ UnlockCount(c, e.lockHash) = 1
                /\ e.lockHash \in st.processedLocks
           /\ \A a \in UnlockCalls(c) :
                a.lockHash \in st.processedLocks =>
                    LET out == UnlockNFTWithProof(c, st, a)
                    IN /\ Rejected(c, out)
                       /\ ~st.paused => out.reason = "Lock already processed"
           /\ \A b \in BatchCalls(c) :
                BatchHashes(b) \cap st.processedLocks # {} =>
                    LET out == BatchUnlockNFTWithProof(c, st, b)
                    IN /\ Rejected(c, out)
                       /\ (~st.paused /\ Len(b.proofs) = Len(b.lockHashes)
                             /\ b.lockHashes[1] \in st.processedLocks)
                            => out.reason = "Lock already processed"

\* C1: on each verifier a lock hash is unlocked successfully at most once,
\* by the single and the batch entry point together; every later attempt
\* that names it is rejected and changes nothing, with 'Lock already
\* processed' when that check is the first to fail; and a hash once in
\* processedLocks stays in it
C1_Theorem ==
    /\ []C1_OncePerHash
    /\ [][\A c \in Chains :
            ledger[c].processedLocks \subseteq ledger'[c].processedLocks]_vars

\* a processed lock hash is cached again, under a root that commits to it:
\* only the processedLocks check stands between the call and a second unlock
C1_Witness ==
    \E c \in Chains :
        \E a \in UnlockCalls(c) :
            /\ a.lockHash \in ledger[c].processedLocks
            /\ UnlockCount(c, a.lockHash) = 1
            /\ ~ledger[c].paused
            /\ ledger[c].blockRoots[a.blockNumber] # ZeroHash
            /\ RecordAndProofFailure(ledger[c], a) = ""

\* every asset a verifier minted or released, it minted or released for the
\* lock hash of a successful lock of that asset, to that recipient, in that
\* block, on the other verifier
MatchesLock ==
    \A c \in Chains :
        \A e \in DOMAIN ledger[c].NFTUnlocked :
            \E d \in RealLocks(Other(c)) :
                /\ d.lockHash = e.lockHash
                /\ d.tokenId = e.tokenId
                /\ d.recipient = e.recipient
                /\ d.blockNumber = e.blockNumber

\* C2 as stated: whatever roots and records the rootSubmitter passes, every
\* mint or release is for the lock hash of a successful lock of the same
\* asset, recipient and block on the other verifier
C2_AnySubmitter == MatchesLock

\* token t is in a user's hands on chain c
HeldByUser(c, t) == ledger[c].nftOwner[t] \in Users

LockedOnBoth(t) == ledger[ETH].lockedTokens[t] /\ ledger[MEGA].lockedTokens[t]

\* C3 as stated: lockedTokens[id] is true on at most one of the two
\* verifiers
C3_LockedOnAtMostOne == \A t \in Tokens : ~LockedOnBoth(t)

\* no token was airdropped since construction: every token of the MegaETH
\* collection was minted by the bridge
NoAirdrop == \A c \in Chains : ledger[c].Airdropped = {}

\* token t was locked on chain c at least once
EverLocked(c, t) == \E d \in DOMAIN ledger[c].NFTLocked : d.tokenId = t

\* C3, amended: lockedTokens[id] is true on at most one of the two
\* verifiers as long as asset id has not been locked on MegaEthBridge; from
\* its first lock there, lockedTokens[id] can be true on both
C3_Theorem == \A t \in Tokens : LockedOnBoth(t) => EverLocked(MEGA, t)

\* the asset went to MegaETH and is on its way back: locked on Ethereum
\* since the first leg, locked on MegaETH and not yet released on Ethereum
C3_Witness ==
    \E t \in Tokens :
        /\ nForged = 0
        /\ LockedOnBoth(t)
        /\ ledger[MEGA].activeOnMegaETH[t]
        /\ DOMAIN ledger[ETH].NFTUnlocked = {}

\* the NFTUnlocked events of MegaEthBridge that minted token t
MintsOf(t) ==
    LET E == {e \in DOMAIN ledger[MEGA].NFTUnlocked : e.tokenId = t /\ e.minted}
    IN [e \in E |-> ledger[MEGA].NFTUnlocked[e]]

C4_MintOnce ==
    LET st == ledger[MEGA]
    IN /\ \A t \in Tokens :
            /\ BagSize(MintsOf(t)) <= 1
            /\ BagSize(MintsOf(t)) = 1 => st.activeOnMegaETH[t]
       /\ \A a \in UnlockCalls(MEGA) :
            LET out == MegaUnlockNFTWithProof(st, a)
            IN out.ok =>
                IF st.activeOnMegaETH[a.tokenId]
                THEN /\ st.nftOwner[a.tokenId] = BridgeAddress(MEGA)
                     /\ st.lockedTokens[a.tokenId]
                     /\ out.st.nftOwner = [st.nftOwner EXCEPT ![a.tokenId] = a.recipient]
                     /\ ~out.st.lockedTokens[a.tokenId]
                     /\ out.st.NFTUnlocked = BagAdd(st.NFTUnlocked, UnlockEvent(a, FALSE))
                ELSE /\ st.nftOwner[a.tokenId] = ZeroAddress
                     /\ out.st.nftOwner = [st.nftOwner EXCEPT ![a.tokenId] = a.recipient]
                     /\ out.st.activeOnMegaETH[a.tokenId]
                     /\ out.st.NFTUnlocked = BagAdd(st.NFTUnlocked, UnlockEvent(a, TRUE))

\* C4: MegaEthBridge mints an asset at most once, on its first arrival,
\* when activeOnMegaETH[id] is false; an unlock for an asset that is active
\* releases the token the verifier holds to the recipient and mints nothing;
\* activeOnMegaETH[id], once true, stays true
C4_Theorem ==
    /\ []C4_MintOnce
    /\ [][\A t \in Tokens :
            ledger[MEGA].activeOnMegaETH[t] => ledger'[MEGA].activeOnMegaETH[t]]_vars

\* an asset arrived on MegaETH twice under honest roots: minted the first
\* time, released the second
C4_Witness ==
    \E t \in Tokens :
        /\ nForged = 0
        /\ BagSize(MintsOf(t)) = 1
        /\ \E e \in DOMAIN ledger[MEGA].NFTUnlocked : e.tokenId = t /\ ~e.minted

\* the checks unlockNFTWithProof on chain c makes before it looks at the
\* root all pass for call a
ReachesRootCheck(c, a) ==
    /\ ~ledger[c].paused
    /\ a.lockHash \notin ledger[c].processedLocks
    /\ c = ETH => ledger[c].lockedTokens[a.tokenId]
    /\ a.recipient # ZeroAddress

\* call a names the lock hash, token, recipient and block of a record cached
\* on chain c
AgreesWithRecord(c, a) ==
    LET recorded == Recorded(ledger[c], a.lockHash)
    IN /\ recorded.lockHash = a.lockHash
       /\ recorded.tokenId = a.tokenId
       /\ recorded.recipient = a.recipient
       /\ recorded.blockNumber = a.blockNumber

\* the proof of call a folds over the call's leaf to root
Folds(a, root) ==
    ProcessProof(a.proof, LeafHash(a.tokenId, a.recipient, a.lockHash, a.blockNumber)) = root

\* C5: unlockNFTWithProof succeeds only if the root stored for blockNumber
\* at the time of the call is non-empty and the proof, folded pair-sorted
\* over the leaf hash(tokenId, recipient, lockHash, blockNumber), yields that
\* root; with an empty root (never set, or cleared) or a proof that does not
\* fold to the root the call is rejected and changes nothing, with 'Block
\* root not set' / 'Invalid merkle proof' when no earlier check fails
C5_Theorem ==
    \A c \in Chains :
        \A a \in UnlockCalls(c) :
            LET st == ledger[c]
                root == st.blockRoots[a.blockNumber]
                out == UnlockNFTWithProof(c, st, a)
            IN /\ out.ok => root # ZeroHash /\ Folds(a, root)
               /\ root = ZeroHash =>
                    /\ Rejected(c, out)
                    /\ ReachesRootCheck(c, a) => out.reason = "Block root not set"
               /\ (root # ZeroHash /\ ~Folds(a, root)) =>
                    /\ Rejected(c, out)
                    /\ (ReachesRootCheck(c, a) /\ AgreesWithRecord(c, a))
                            => out.reason = "Invalid merkle proof"

\* an honest root was submitted with the record of a lock of the other
\* chain and cleared again: the record is still cached, the root is empty,
\* and the unlock of that lock is answered 'Block root not set'
C5_Witness ==
    \E c \in Chains :
        \E a \in UnlockCalls(c) :
            /\ nForged = 0
            /\ AgreesWithRecord(c, a)
            /\ Recorded(ledger[c], a.lockHash) \in RealLocks(Other(c))
            /\ ledger[c].blockRoots[a.blockNumber] = ZeroHash
            /\ UnlockNFTWithProof(c, ledger[c], a).reason = "Block root not set"

\* the records the root submissions accepted on chain c have cached
CachedBySubmitter(c) ==
    UNION { {s.locks[i] : i \in 1..Len(s.locks)} : s \in ledger[c].BlockRootSet }

\* C6: an unlock succeeds only if the submitter cached a record for the lock
\* hash and the call's tokenId, recipient and blockNumber equal that
\* record's; a call with a mismatching argument is rejected and changes
\* nothing
C6_OnlySubmitterRecords ==
    \A c \in Chains :
        \A a \in UnlockCalls(c) :
            LET out == UnlockNFTWithProof(c, ledger[c], a)
            IN /\ out.ok =>
                    \E d \in CachedBySubmitter(c) :
                        /\ d.lockHash = a.lockHash
                        /\ d.tokenId = a.tokenId
                        /\ d.recipient = a.recipient
                        /\ d.blockNumber = a.blockNumber
               /\ ~AgreesWithRecord(c, a) => Rejected(c, out)

\* C7 as stated: a root, once non-empty, never changes
C7_RootNeverChanges ==
    [][\A c \in Chains, bn \in Blocks :
            ledger[c].blockRoots[bn] # ZeroHash
                => ledger'[c].blockRoots[bn] = ledger[c].blockRoots[bn]]_vars

\* some unlock on chain c succeeded against the root of block bn
RootUsed(c, bn) == \E e \in DOMAIN ledger[c].NFTUnlocked : e.blockNumber = bn

\* C7, amended: a non-empty root changes in one way only, by the owner's
\* clearBlockRoot / clearMegaEthBlockRoot before any unlock has used it,
\* which empties it (a new root can then be submitted); no root submission
\* and no unlock changes a non-empty root
C7_Theorem ==
    [][\A c \in Chains, bn \in Blocks :
            (/\ ledger[c].blockRoots[bn] # ZeroHash
             /\ ledger'[c].blockRoots[bn] # ledger[c].blockRoots[bn])
                => /\ ledger'[c].blockRoots[bn] = ZeroHash
                   /\ ~RootUsed(c, bn)
                   /\ ~ledger[c].blockRootConsumed[bn]
                   /\ ledger'[c] = ClearBlockRoot(ledger[c], Deployer, bn).st]_vars

\* under honest submissions the root stored for a block is another one than
\* a root accepted for that block before: it was cleared and submitted again
C7_Witness ==
    \E c \in Chains, bn \in Blocks :
        \E s \in ledger[c].BlockRootSet :
            /\ nForged = 0
            /\ s.blockNumber = bn
            /\ ledger[c].blockRoots[bn] \notin {s.root, ZeroHash}

C8_UsedRootStays ==
    \A c \in Chains, bn \in Blocks :
        RootUsed(c, bn) =>
            LET st == ledger[c]
            IN /\ st.blockRoots[bn] # ZeroHash
               /\ \A caller \in AdminCallers :
                    LET out == ClearBlockRoot(st, caller, bn)
                    IN /\ Rejected(c, out)
                       /\ caller = Deployer => out.reason = "Root already used"
               /\ \A caller \in AdminCallers \cup {st.rootSubmitter} :
                    \A s \in Submissions(c, bn) :
                        LET out == SetBlockRoot(st, caller, bn, s.root, s.lockCount, s.locks)
                        IN /\ Rejected(c, out)
                           /\ caller = st.rootSubmitter
                                => out.reason = "Root already submitted for block"

\* C8: once an unlock (single or batch) has succeeded against the root of
\* block N on a verifier, every clear of N is rejected, with 'Root already
\* used' when the owner calls, every root submission for N is rejected, and
\* the root of N is the same in every later state
C8_Theorem ==
    /\ []C8_UsedRootStays
    /\ [][\A c \in Chains, bn \in Blocks :
            RootUsed(c, bn) => ledger'[c].blockRoots[bn] = ledger[c].blockRoots[bn]]_vars

\* a root was used by an unlock, and locks of its block are still waiting, so
\* that there is another root to submit for the block
C8_Witness ==
    \E c \in Chains, bn \in Blocks :
        /\ RootUsed(c, bn)
        /\ \E s \in Submissions(c, bn) :
                s.root \notin {ZeroHash, ledger[c].blockRoots[bn]}
        /\ \E d \in LocksAt(Other(c), bn) : d.lockHash \notin ledger[c].processedLocks

\* the root, the root metadata and the cached records of a ledger state
RootState(st) == <<st.blockRoots, st.blockRootMetadata, st.lockData>>

\* the four conditions of an accepted submission
SubmissionConditions(st, caller, bn, s) ==
    /\ caller = st.rootSubmitter
    /\ st.blockRoots[bn] = ZeroHash
    /\ Len(s.locks) = s.lockCount
    /\ \A i \in 1..Len(s.locks) : s.locks[i].blockNumber = bn

\* C9: a root submission succeeds only if the caller is the current
\* rootSubmitter, no root is stored for blockNumber, locks.length equals
\* lockCount and every record's blockNumber equals the argument (and it does
\* succeed then, storing the root, the metadata and the records); in every
\* other case it is rejected and the root, the metadata and the cached
\* records are unchanged
C9_Theorem ==
    \A c \in Chains, bn \in Blocks :
        \A caller \in AdminCallers \cup {ZeroAddress, ledger[c].rootSubmitter} :
            \A s \in Submissions(c, bn) :
                LET st == ledger[c]
                    out == SetBlockRoot(st, caller, bn, s.root, s.lockCount, s.locks)
                IN IF SubmissionConditions(st, caller, bn, s)
                   THEN /\ out.ok
                        /\ out.st.blockRoots[bn] = s.root
                        /\ out.st.blockRootMetadata[bn] =
                                [submitter |-> caller, lockCount |-> s.lockCount]
                        /\ \A i \in 1..Len(s.locks) :
                                Recorded(out.st, s.locks[i].lockHash) = s.locks[i]
                   ELSE /\ ~out.ok
                        /\ RootState(out.st) = RootState(st)
                        /\ out.st = st

\* the rootSubmitter submits, for a block without a root, two records of
\* which the first is of the block and the last is not: the call has stored
\* the root and cached the first record when it is rejected
C9_Witness ==
    \E c \in Chains, bn \in Blocks :
        \E s \in Submissions(c, bn) :
            /\ ledger[c].blockRoots[bn] = ZeroHash
            /\ Len(s.locks) = 2 /\ s.lockCount = 2
            /\ s.locks[1].blockNumber = bn
            /\ s.locks[2].blockNumber # bn
            /\ s.locks[1].lockHash \notin DOMAIN ledger[c].lockData
            /\ SetBlockRoot(ledger[c], ledger[c].rootSubmitter, bn,
                            s.root, s.lockCount, s.locks).reason = "Lock block mismatch"

\* element i of batch b
BatchElement(b, i) ==
    MkUnlock(b.tokenIds[i], b.recipients[i], b.lockHashes[i], b.blockNumbers[i], b.proofs[i])

\* the checks of one element of a batch unlock pass in the state before the
\* call
ElementChecksPass(c, a) ==
    /\ a.lockHash \notin ledger[c].processedLocks
    /\ c = ETH => ledger[c].lockedTokens[a.tokenId]
    /\ ledger[c].blockRoots[a.blockNumber] # ZeroHash
    /\ AgreesWithRecord(c, a)
    /\ Folds(a, ledger[c].blockRoots[a.blockNumber])

\* C10: batchUnlockNFTWithProof is all-or-nothing: it succeeds only if the
\* checks of every element pass and no lock hash is repeated in the batch,
\* and then every element is processed; a rejected batch changes no processed
\* flag, root-consumed flag, custody flag, cached record or token owner
C10_Theorem ==
    \A c \in Chains :
        \A b \in BatchCalls(c) :
            LET st == ledger[c]
                out == BatchUnlockNFTWithProof(c, st, b)
                n == Len(b.lockHashes)
            IN IF out.ok
               THEN /\ \A i \in 1..n : ElementChecksPass(c, BatchElement(b, i))
                    /\ \A i, j \in 1..n : b.lockHashes[i] = b.lockHashes[j] => i = j
                    /\ \A i \in 1..n :
                        /\ b.lockHashes[i] \in out.st.processedLocks
                        /\ out.st.blockRootConsumed[b.blockNumbers[i]]
                        /\ b.lockHashes[i] \notin DOMAIN out.st.lockData
                        /\ ~out.st.lockedTokens[b.tokenIds[i]]
                    /\ BagSize(out.st.NFTUnlocked) = BagSize(st.NFTUnlocked) + n
               ELSE /\ out.st.processedLocks = st.processedLocks
                    /\ out.st.blockRootConsumed = st.blockRootConsumed
                    /\ out.st.lockedTokens = st.lockedTokens
                    /\ out.st.lockData = st.lockData
                    /\ out.st.nftOwner = st.nftOwner
                    /\ out.st = st

\* a batch whose first element passes every check and would be unlocked on
\* its own, and whose second element repeats the first one's lock hash
C10_Witness ==
    \E c \in Chains :
        \E b \in BatchCalls(c) :
            /\ Len(b.lockHashes) = 2 /\ Len(b.proofs) = 2
            /\ b.lockHashes[1] = b.lockHashes[2]
            /\ ~ledger[c].paused
            /\ BatchUnlockElement(c, ledger[c], BatchElement(b, 1)).ok
            /\ BatchUnlockNFTWithProof(c, ledger[c], b).reason = "Lock already processed"

\* the callers and recipients of the lock calls the lock claims range over
LockSenders == Users
AnyRecipient == {ZeroAddress} \cup Users

\* C11: a single-asset lock succeeds only when the asset is not locked on
\* that verifier and the recipient is not the zero address; after it
\* lockedTokens[id] is true and the verifier owns the token; a lock of an
\* asset still locked on the verifier is rejected and changes nothing, with
\* 'Token already locked' (the first check after the pause check)
C11_Theorem ==
    \A c \in Chains, sender \in LockSenders, tokenId \in Tokens,
       recipient \in AnyRecipient :
        LET st == ledger[c]
            out == Lock(c, st, sender, tokenId, recipient, blockNumber[c])
        IN /\ out.ok =>
                /\ ~st.lockedTokens[tokenId]
                /\ recipient # ZeroAddress
                /\ out.st.lockedTokens[tokenId]
                /\ out.st.nftOwner[tokenId] = BridgeAddress(c)
           /\ st.lockedTokens[tokenId] =>
                /\ Rejected(c, out)
                /\ ~st.paused => out.reason = "Token already locked"

\* a token was locked on a verifier and not unlocked there since, and the
\* one who locked it locks it again with the same recipient
C11_Witness ==
    \E c \in Chains :
        \E d \in RealLocks(c) :
            /\ ledger[c].lockedTokens[d.tokenId]
            /\ ledger[c].nftOwner[d.tokenId] = BridgeAddress(c)
            /\ d.lockHash \notin ledger[Other(c)].processedLocks
            /\ ~ledger[c].paused
            /\ Lock(c, ledger[c], d.owner, d.tokenId, d.recipient,
                    blockNumber[c]).reason = "Token already locked"

\* the custody state of a verifier: the flags and the owners of the tokens
Custody(st) == <<st.lockedTokens, st.activeOnMegaETH, st.nftOwner>>

\* the single-asset locks of tokenIds[i..], one call after the other, as
\* long as they are accepted
RECURSIVE SingleLocksFrom(_, _, _, _, _, _, _)
SingleLocksFrom(c, st, sender, tokenIds, recipient, bn, i) ==
    IF i > Len(tokenIds)
    THEN Success(st)
    ELSE LET r == Lock(c, st, sender, tokenIds[i], recipient, bn)
         IN IF ~r.ok THEN r
            ELSE SingleLocksFrom(c, r.st, sender, tokenIds, recipient, bn, i + 1)

\* a batch lock is accepted exactly when the single locks of its assets, one
\* after the other, are all accepted, and then leaves their custody state
BatchAsSingles(c) ==
    \A sender \in LockSenders, recipient \in AnyRecipient :
        \A tokenIds \in BatchLockInputs \ {<<>>} :
            LET st == ledger[c]
                batch == BatchLock(c, st, sender, tokenIds, recipient, blockNumber[c])
                singles == SingleLocksFrom(c, st, sender, tokenIds, recipient,
                                           blockNumber[c], 1)
            IN /\ batch.ok <=> singles.ok
               /\ batch.ok => Custody(batch.st) = Custody(singles.st)

\* C12 as stated: on both verifiers the batch lock accepts an asset exactly
\* when the single-asset lock would accept it in the same state, and leaves
\* the custody state of the equivalent sequence of single locks
C12_BatchAsSingles == \A c \in Chains : BatchAsSingles(c)

\* the part of C12 the code keeps: EthereumBridge.batchLockNFT agrees with
\* the sequence of lockNFT calls
C12_EthBatchAsSingles == BatchAsSingles(ETH)

\* the outcome of a call is the rejection of a paused verifier
RejectedAsPaused(c, out) == Rejected(c, out) /\ out.reason = "Pausable: paused"

\* the state of the verifier on chain c once its owner has unpaused it
Unpaused(c) == Unpause(ledger[c], Deployer).st

\* C13: while a verifier is paused every single and batch lock and every
\* single and batch unlock on it is rejected and changes nothing (custody
\* flags, processed locks, active flags, token owners); unpause changes the
\* pause flag only, and no call is rejected for the pause after it
C13_Theorem ==
    \A c \in Chains :
        ledger[c].paused =>
            LET st == ledger[c]
                u == Unpaused(c)
                bn == blockNumber[c]
            IN /\ Unpause(st, Deployer).ok
               /\ u = [st EXCEPT !.paused = FALSE]
               /\ \A sender \in LockSenders, recipient \in AnyRecipient :
                    /\ \A tokenId \in Tokens :
                        /\ RejectedAsPaused(c, Lock(c, st, sender, tokenId, recipient, bn))
                        /\ Lock(c, u, sender, tokenId, recipient, bn).reason
                                # "Pausable: paused"
                    /\ \A tokenIds \in BatchLockInputs :
                        /\ RejectedAsPaused(c, BatchLock(c, st, sender, tokenIds, recipient, bn))
                        /\ BatchLock(c, u, sender, tokenIds, recipient, bn).reason
                                # "Pausable: paused"
               /\ \A a \in UnlockCalls(c) :
                    /\ RejectedAsPaused(c, UnlockNFTWithProof(c, st, a))
                    /\ UnlockNFTWithProof(c, u, a).reason # "Pausable: paused"
               /\ \A b \in BatchCalls(c) :
                    /\ RejectedAsPaused(c, BatchUnlockNFTWithProof(c, st, b))
                    /\ BatchUnlockNFTWithProof(c, u, b).reason # "Pausable: paused"

\* a paused verifier is asked for a lock and for an unlock, single and in a
\* batch, that it accepts once it is unpaused
C13_Witness ==
    /\ \E c \in Chains, sender \in LockSenders, tokenId \in Tokens :
        /\ ledger[c].paused
        /\ ~Lock(c, ledger[c], sender, tokenId, 1, blockNumber[c]).ok
        /\ Lock(c, Unpaused(c), sender, tokenId, 1, blockNumber[c]).ok
        /\ BatchLock(c, Unpaused(c), sender, <<tokenId>>, 1, blockNumber[c]).ok
    /\ \E c \in Chains :
        /\ ledger[c].paused
        /\ \E a \in UnlockCalls(c) :
            /\ ~UnlockNFTWithProof(c, ledger[c], a).ok
            /\ UnlockNFTWithProof(c, Unpaused(c), a).ok
        /\ \E b \in BatchCalls(c) :
            /\ Len(b.lockHashes) > 0
            /\ ~BatchUnlockNFTWithProof(c, ledger[c], b).ok
            /\ BatchUnlockNFTWithProof(c, Unpaused(c), b).ok

\* how many successful locks on chain c gave lock hash h
LocksWithHash(c, h) ==
    LET E == {d \in DOMAIN ledger[c].NFTLocked : d.lockHash = h}
    IN BagSize([d \in E |-> ledger[c].NFTLocked[d]])

\* C14 as stated: on each verifier every successful lock has a lock hash of
\* its own, whether the locks are elements of one batch, batch and single
\* calls, or the same asset locked again by the same owner for the same
\* recipient after it was unlocked
C14_UniqueLockHashes ==
    \A c \in Chains :
        \A d \in DOMAIN ledger[c].NFTLocked : LocksWithHash(c, d.lockHash) = 1

----------------------------------------------------------------------------
(* The relay's database (src/backend/src/db/index.js).  A table with a     *)
(* unique key is a function of the key; lock_events keeps the order of      *)
(* created_at as well.                                                      *)

\* a row of lock_events
MkLockEvent(tokenId, ownerAddress, recipientAddress, lockHash, bn, chain, status) ==
    [token_id |-> tokenId, owner_address |-> ownerAddress,
     recipient_address |-> recipientAddress, lock_hash |-> lockHash,
     block_number |-> bn, chain |-> chain, status |-> status]

\* the rows of lock_events with lock hash h
RowsOf(d, h) == {i \in 1..Len(d.lock_events) : d.lock_events[i].lock_hash = h}

\* createLockEvent with ON CONFLICT (lock_hash) DO UPDATE: the row of an
\* insert that meets its own lock hash replaces the stored one
CreateLockEventReplacing(d, row) ==
    IF RowsOf(d, row.lock_hash) # {}
    THEN [d EXCEPT !.lock_events =
            [i \in 1..Len(d.lock_events) |->
                IF d.lock_events[i].lock_hash = row.lock_hash
                THEN row ELSE d.lock_events[i]]]
    ELSE [d EXCEPT !.lock_events = Append(d.lock_events, row)]

\* db.createLockEvent: INSERT ... ON CONFLICT (lock_hash) DO NOTHING
CreateLockEvent(d, row) ==
    IF RowsOf(d, row.lock_hash) # {}
    THEN d
    ELSE [d EXCEPT !.lock_events = Append(d.lock_events, row)]

\* getLockEventsByBlock without the chain in its WHERE clause
GetLockEventsByBlockAnyChain(d, bn, chain) ==
    SelectSeq(d.lock_events, LAMBDA r : r.block_number = bn)

\* db.getLockEventsByBlock: the rows of the block and chain, ORDER BY
\* created_at
GetLockEventsByBlock(d, bn, chain) ==
    SelectSeq(d.lock_events, LAMBDA r : r.block_number = bn /\ r.chain = chain)

\* db.updateLockEventStatus
UpdateLockEventStatus(d, lockHash, status) ==
    [d EXCEPT !.lock_events =
        [i \in 1..Len(d.lock_events) |->
            IF d.lock_events[i].lock_hash = lockHash
            THEN [d.lock_events[i] EXCEPT !.status = status]
            ELSE d.lock_events[i]]]

\* db.updateLockEventsByBlock
UpdateLockEventsByBlock(d, bn, chain, status) ==
    [d EXCEPT !.lock_events =
        [i \in 1..Len(d.lock_events) |->
            IF d.lock_events[i].block_number = bn /\ d.lock_events[i].chain = chain
            THEN [d.lock_events[i] EXCEPT !.status = status]
            ELSE d.lock_events[i]]]

\* db.createMerkleProof: INSERT ... ON CONFLICT (lock_hash) DO UPDATE SET
\* proof, merkle_root
CreateMerkleProof(d, lockHash, proof, merkleRoot, bn, sourceChain) ==
    LET old == d.merkle_proofs
        new == IF lockHash \in DOMAIN old
               THEN [old[lockHash] EXCEPT !.proof = proof, !.merkle_root = merkleRoot]
               ELSE [proof |-> proof, merkle_root |-> merkleRoot,
                     block_number |-> bn, source_chain |-> sourceChain,
                     destination_chain |-> Other(sourceChain)]
    IN [d EXCEPT !.merkle_proofs =
            [h \in (DOMAIN old) \cup {lockHash} |->
                IF h = lockHash THEN new ELSE old[h]]]

\* the key of a row of block_roots (the destination follows the source)
RootKey(bn, sourceChain) == <<bn, sourceChain, Other(sourceChain)>>

\* db.createBlockRoot: INSERT ... ON CONFLICT (block_number, source_chain,
\* destination_chain) DO UPDATE SET merkle_root, lock_count
CreateBlockRoot(d, bn, sourceChain, merkleRoot, lockCount) ==
    LET old == d.block_roots
        k == RootKey(bn, sourceChain)
        new == IF k \in DOMAIN old
               THEN [old[k] EXCEPT !.merkle_root = merkleRoot, !.lock_count = lockCount]
               ELSE [merkle_root |-> merkleRoot, lock_count |-> lockCount,
                     submitted |-> FALSE]
    IN [d EXCEPT !.block_roots =
            [x \in (DOMAIN old) \cup {k} |-> IF x = k THEN new ELSE old[x]]]

\* db.updateBlockRootSubmission(..., {submitted: true, ...})
UpdateBlockRootSubmission(d, bn, sourceChain) ==
    LET k == RootKey(bn, sourceChain)
    IN IF k \in DOMAIN d.block_roots
       THEN [d EXCEPT !.block_roots[k].submitted = TRUE]
       ELSE d

\* db.createUnlockEvent: a plain INSERT, one more row each time
CreateUnlockEvent(d, row) ==
    [d EXCEPT !.unlock_events = BagAdd(d.unlock_events, row)]

\* db.createRelayerTransaction throws when a row with the transaction hash
\* is stored already: tx_hash is UNIQUE and the INSERT has no ON CONFLICT
CreateRelayerTransactionThrows(d, txHash) ==
    txHash \in DOMAIN d.relayer_transactions

\* the error of an INSERT that meets a unique key
UniqueViolation == "duplicate key value violates unique constraint"

\* db.createRelayerTransaction: a plain INSERT, which stores the row of a
\* new transaction hash and leaves the table as it is when it throws
CreateRelayerTransaction(d, txHash, chain, txType, status) ==
    IF CreateRelayerTransactionThrows(d, txHash)
    THEN d
    ELSE [d EXCEPT !.relayer_transactions =
            [x \in (DOMAIN @) \cup {txHash} |->
                IF x = txHash
                THEN [chain |-> chain, tx_type |-> txType, status |-> status]
                ELSE @[x]]]

\* db.updateRelayerTransaction(txHash, {status, ...})
UpdateRelayerTransaction(d, txHash, status) ==
    IF txHash \in DOMAIN d.relayer_transactions
    THEN [d EXCEPT !.relayer_transactions[txHash].status = status]
    ELSE d

\* db.createFailedTransaction: a plain INSERT, one more row on every call
CreateFailedTransaction(d, txType, chain, payload, errorMessage) ==
    [d EXCEPT !.failed_transactions =
        BagAdd(@, [tx_type |-> txType, chain |-> chain, payload |-> payload,
                   error_message |-> errorMessage])]

\* db.getLastProcessedBlock: MAX(block_number) over the chain's
\* lock_events, null (0) without any
GetLastProcessedBlock(d, chain) ==
    LET B == {d.lock_events[i].block_number :
                i \in {j \in 1..Len(d.lock_events) : d.lock_events[j].chain = chain}}
    IN IF B = {} THEN 0 ELSE CHOOSE b \in B : \A x \in B : x <= b

\* db.getPendingBlockRoots: the rows not submitted, ORDER BY block_number;
\* the rows of one block number come in any order, so this is the set of
\* the sequences the query may return
GetPendingBlockRoots(d) ==
    LET K == {k \in DOMAIN d.block_roots : ~d.block_roots[k].submitted}
        row(k) == [block_number |-> k[1], source_chain |-> k[2],
                   destination_chain |-> k[3],
                   merkle_root |-> d.block_roots[k].merkle_root]
    IN {[i \in 1..Len(q) |-> row(q[i])] :
            q \in {o \in Orders(K) :
                    \A i \in 1..Len(o) : \A j \in i..Len(o) : o[i][1] <= o[j][1]}}

----------------------------------------------------------------------------
(* The relay's operations take and give a record [ledger, blockNumber, db,  *)
(* queue, proc, checkpoint, attempted]: the chains and their heads, the    *)
(* database, the job queues, the process memory, the listeners' last       *)
(* updateLastProcessedBlock calls, and the lock hashes unlockNFT was       *)
(* called for.  A function of the relay runs                               *)
(* from one await to the next in one step; a step of a call takes the      *)
(* record and the call's own state (where it is, what it has read) and     *)
(* gives both back.  An await may throw (a node or the database failing to *)
(* answer): the step is then taken with fault TRUE.                        *)

World ==
    [ledger |-> ledger, blockNumber |-> blockNumber, db |-> db, queue |-> queue,
     proc |-> proc, checkpoint |-> checkpoint, attempted |-> {}]

\* one copy less of e in the bag b
BagRemove(b, e) ==
    IF b[e] > 1
    THEN [b EXCEPT ![e] = @ - 1]
    ELSE [x \in (DOMAIN b) \ {e} |-> b[x]]

\* the outcome of a step: the record, and the call's state
Stepped(w, call) == [w |-> w, call |-> call]

----------------------------------------------------------------------------
(* The proof generator (src/backend/src/services/proofGenerator.js) *)

\* the leaves hashed as well (hashLeaves: true)
BuilderLeavesHashed(locks, bn) ==
    [i \in 1..Len(locks) |->
        <<5>> \o LeafHash(locks[i].token_id, locks[i].recipient_address,
                          locks[i].lock_hash, bn)]

\* locks.map(lock => solidityPackedKeccak256(token_id, recipient_address,
\* lock_hash, blockNumber)), the leaves as they are (hashLeaves: false)
BuilderLeaves(locks, bn) ==
    [i \in 1..Len(locks) |->
        LeafHash(locks[i].token_id, locks[i].recipient_address,
                 locks[i].lock_hash, bn)]

\* tree.getHexProof(leaf): the proof of the first leaf equal to leaf
GetHexProof(leaves, leaf) ==
    MerkleProofOf(leaves,
        CHOOSE k \in 1..Len(leaves) :
            /\ leaves[k] = leaf
            /\ \A j \in 1..(k - 1) : leaves[j] # leaf)

\* the attempts of a job of the root queue and of the proof queue
\* ({attempts: 5}, {attempts: 3}): a job that throws is tried again until
\* it has thrown that often
RootAttempts == 5
ProofAttempts == 3

\* a job of the root queue, as rootQueue.add makes it
MkRootJob(bn, sourceChain, merkleRoot) ==
    [blockNumber |-> bn, sourceChain |-> sourceChain,
     destinationChain |-> Other(sourceChain), merkleRoot |-> merkleRoot,
     attemptsMade |-> 0]

\* the key of a build: `${chain}-${blockNumber}`
BuildKey(job) == <<job.chain, job.blockNumber>>

\* a guard that lets every call through
AlreadyProcessingNever(p, key) == FALSE

\* this.processing.has(key)
AlreadyProcessing(p, key) == key \in p.processing

\* a call of generateProofForBlock that has passed its guard and added its
\* key: it awaits the block's locks
MkBuild(job) ==
    [job |-> job, pc |-> "read", locks |-> <<>>, i |-> 1, error |-> ""]

\* generateProofForBlock from one await to the next.  pc names the await
\* the call is at: "read" getLockEventsByBlock, "proof" createMerkleProof
\* and "status" updateLockEventStatus of lock i, "root" createBlockRoot,
\* "enqueue" rootQueue.add, "failed" createFailedTransaction of the catch
\* block, which stores error.message (error: for an await that threw, the
\* name of the await); "done" it has returned, "thrown" it has thrown.  The key leaves
\* `processing` as the call returns or throws.
BuildStep(w, b, fault) ==
    LET bn == b.job.blockNumber
        chain == b.job.chain
        leaves == BuilderLeaves(b.locks, bn)
        root == MerkleRoot(leaves)
        released == [w EXCEPT !.proc.processing = @ \ {BuildKey(b.job)}]
    IN IF b.pc = "failed"
       THEN Stepped(
                IF fault
                THEN released
                ELSE [released EXCEPT !.db =
                        CreateFailedTransaction(w.db, "generate_proof", chain,
                                                <<bn, chain>>, b.error)],
                [b EXCEPT !.pc = "thrown"])
       ELSE IF fault
       THEN Stepped(w, [b EXCEPT !.pc = "failed", !.error = b.pc])
       ELSE IF b.pc = "read"
       THEN LET locks == GetLockEventsByBlock(w.db, bn, chain)
            IN IF Len(locks) = 0
               THEN Stepped(released, [b EXCEPT !.pc = "done"])
               ELSE Stepped(w, [b EXCEPT !.pc = "proof", !.locks = locks, !.i = 1])
       ELSE IF b.pc = "proof"
       THEN Stepped([w EXCEPT !.db =
                        CreateMerkleProof(w.db, b.locks[b.i].lock_hash,
                                          GetHexProof(leaves, leaves[b.i]), root,
                                          bn, chain)],
                    [b EXCEPT !.pc = "status"])
       ELSE IF b.pc = "status"
       THEN Stepped([w EXCEPT !.db =
                        UpdateLockEventStatus(w.db, b.locks[b.i].lock_hash,
                                              "proof_generated")],
                    IF b.i < Len(b.locks)
                    THEN [b EXCEPT !.pc = "proof", !.i = @ + 1]
                    ELSE [b EXCEPT !.pc = "root"])
       ELSE IF b.pc = "root"
       THEN Stepped([w EXCEPT !.db = CreateBlockRoot(w.db, bn, chain, root,
                                                     Len(b.locks))],
                    [b EXCEPT !.pc = "enqueue"])
       ELSE Stepped([released EXCEPT !.queue.rootQueue =
                        BagAdd(@, MkRootJob(bn, chain, root))],
                    [b EXCEPT !.pc = "done"])

\* the call run to its end with no other call in between, its n-th await
\* throwing (none, when n is 0)
RECURSIVE RunBuild(_, _, _)
RunBuild(w, b, n) ==
    IF b.pc \in {"done", "thrown"}
    THEN Stepped(w, b)
    ELSE LET r == BuildStep(w, b, n = 1 /\ b.pc # "failed")
         IN RunBuild(r.w, r.call, IF n > 0 /\ b.pc # "failed" THEN n - 1 ELSE n)

\* ProofGenerator.generateProofForBlock(blockNumber, chain), run to its end
GenerateProofForBlock(w, bn, chain) ==
    LET job == [blockNumber |-> bn, chain |-> chain]
    IN IF AlreadyProcessing(w.proc, BuildKey(job))
       THEN w
       ELSE RunBuild([w EXCEPT !.proc.processing = @ \cup {BuildKey(job)}],
                     MkBuild(job), 0).w

----------------------------------------------------------------------------
(* The event listener (src/backend/src/services/eventListener.js) *)

\* a job of the proof queue, as proofQueue.add makes it
MkProofJob(bn, chain, lockHash) ==
    [blockNumber |-> bn, chain |-> chain, lockHash |-> lockHash,
     attemptsMade |-> 0]

\* the row handleLockEvent inserts for an NFTLocked event of a chain
LockRowOf(chain, ev) ==
    MkLockEvent(ev.tokenId, ev.owner, ev.recipient, ev.lockHash, ev.blockNumber,
                chain, "pending")

\* the row handleUnlockEvent inserts for the NFTUnlocked event ev of a chain
MkUnlockEvent(w, chain, ev) ==
    [lock_hash |-> ev.lockHash, token_id |-> ev.tokenId,
     recipient_address |-> ev.recipient, chain |-> chain,
     block_number |-> w.ledger[chain].unlockBlock[ev.lockHash],
     status |-> "confirmed"]

\* unlock_events.lock_hash REFERENCES lock_events(lock_hash): the insert
\* throws when no lock is recorded under the hash
HandleUnlockEventThrows(w, ev) == RowsOf(w.db, ev.lockHash) = {}

\* provider.getBlockNumber(): the last block mined; blockNumber[c] is the
\* block the next transactions land in
HeadOf(w, c) == w.blockNumber[c] - 1

\* bridge.queryFilter(NFTLocked, fromBlock, toBlock): the events of the
\* blocks, in the order of the log
LockEventsIn(st, fromBlock, toBlock) ==
    SelectSeq(st.lockLog,
              LAMBDA e : e.blockNumber >= fromBlock /\ e.blockNumber <= toBlock)

\* bridge.queryFilter(NFTUnlocked, fromBlock, toBlock)
UnlockEventsIn(st, fromBlock, toBlock) ==
    SelectSeq(st.unlockLog,
              LAMBDA e : /\ e.lockHash \in DOMAIN st.unlockBlock
                         /\ st.unlockBlock[e.lockHash] >= fromBlock
                         /\ st.unlockBlock[e.lockHash] <= toBlock)

\* handleLockEvent up to its createLockEvent: the lock recorded as pending
LockInsert(w, chain, ev) ==
    [w EXCEPT !.db = CreateLockEvent(w.db, LockRowOf(chain, ev))]

\* handleLockEvent from there: proofQueue.add, one more job of the lock's
\* block on every handling
LockEnqueue(w, chain, ev) ==
    [w EXCEPT !.queue.proofQueue =
        BagAdd(@, MkProofJob(ev.blockNumber, chain, ev.lockHash))]

\* EventListener.handleLockEvent for the NFTLocked event ev of a chain, run
\* to its end
HandleLockEvent(w, chain, ev) == LockEnqueue(LockInsert(w, chain, ev), chain, ev)

\* handleUnlockEvent up to its updateLockEventStatus
UnlockStatus(w, ev) ==
    [w EXCEPT !.db = UpdateLockEventStatus(w.db, ev.lockHash, "unlocked")]

\* handleUnlockEvent from there: createUnlockEvent
UnlockInsert(w, chain, ev) ==
    [w EXCEPT !.db = CreateUnlockEvent(w.db, MkUnlockEvent(w, chain, ev))]

\* EventListener.handleUnlockEvent for the NFTUnlocked event ev of a chain,
\* run to its end (it throws at the insert when HandleUnlockEventThrows)
HandleUnlockEvent(w, chain, ev) ==
    IF HandleUnlockEventThrows(w, ev)
    THEN UnlockStatus(w, ev)
    ELSE UnlockInsert(UnlockStatus(w, ev), chain, ev)

\* a call of the listener of a chain: start() from its first await
\* ("resume") or a callback of the poll timer from its await of the head
\* ("poll"), on to the processBatch(from, to) it makes
MkListenerCall(chain, pc, startup) ==
    [chain |-> chain, pc |-> pc, startup |-> startup, from |-> 0, to |-> 0,
     evs |-> <<>>, i |-> 1]

\* EventListener.startPolling: setInterval sets one more timer and its
\* handle takes the place of the one in this.pollingInterval, whose timer,
\* if it has one, goes on firing
StartPolling(l) == [l EXCEPT !.timers = @ + 1, !.pollingInterval = TRUE]

\* clearInterval(this.pollingInterval): the timer of the handle held, if it
\* has one, is no more; the other timers are left
ClearPollingInterval(l) ==
    IF l.pollingInterval
    THEN [l EXCEPT !.timers = @ - 1, !.pollingInterval = FALSE]
    ELSE l

\* the call of a listener returns: start() goes on to startPolling, a
\* callback of a timer is over
Returns(l, win) == IF win.startup THEN StartPolling(l) ELSE l

\* processBatch goes on after its last handler: lastProcessedBlock and
\* updateLastProcessedBlock (which stores nothing), and the call returns
WindowCommits(w, win) ==
    Stepped([w EXCEPT !.proc.listener[win.chain] =
                            Returns([@ EXCEPT !.lastProcessedBlock = win.to], win),
                      !.checkpoint[win.chain] = win.to],
            [win EXCEPT !.pc = "done", !.evs = <<>>, !.i = 1])

\* the call goes on to the window (from, to), or returns when the head is
\* not past lastProcessedBlock
WindowOpens(w, win) ==
    LET c == win.chain
        last == w.proc.listener[c].lastProcessedBlock
    IN IF HeadOf(w, c) > last
       THEN Stepped(w, [win EXCEPT !.pc = "locks_query", !.from = last + 1,
                                   !.to = HeadOf(w, c)])
       ELSE Stepped([w EXCEPT !.proc.listener[c] = Returns(@, win)],
                    [win EXCEPT !.pc = "done"])

\* the listener from one await to the next.  pc names the await the call
\* is at: "resume" getLastProcessedBlock and "head" getBlockNumber of
\* start(), "catchup" getBlockNumber of catchUp(), "poll" getBlockNumber of
\* the timer's callback, "locks_query" and "unlocks_query" the two
\* queryFilter of processBatch, "lock_insert" createLockEvent and
\* "lock_enqueue" proofQueue.add of the handler of lock event i (the block
\* and the transaction of an event never change: the two awaits before are
\* part of "lock_insert"), "unlock_status" updateLockEventStatus,
\* "unlock_insert" createUnlockEvent and "unlock_history"
\* completeBridgeHistory of the handler of unlock event i (bridge_history,
\* a reporting table, is left out); "done" the call has returned, "thrown"
\* it has thrown
ListenerStep(w, win, fault) ==
    LET c == win.chain
        st == w.ledger[c]
        ev == win.evs[win.i]
    IN IF fault
       THEN Stepped(w, [win EXCEPT !.pc = "thrown"])
       ELSE IF win.pc = "resume"
       THEN LET last == GetLastProcessedBlock(w.db, c)
            IN IF last = 0
               THEN Stepped([w EXCEPT !.proc.listener[c].lastProcessedBlock = 0],
                            [win EXCEPT !.pc = "head"])
               ELSE Stepped([w EXCEPT !.proc.listener[c].lastProcessedBlock = last],
                            [win EXCEPT !.pc = "catchup"])
       ELSE IF win.pc = "head"
       THEN Stepped([w EXCEPT !.proc.listener[c].lastProcessedBlock = HeadOf(w, c)],
                    [win EXCEPT !.pc = "catchup"])
       ELSE IF win.pc \in {"catchup", "poll"}
       THEN WindowOpens(w, win)
       ELSE IF win.pc = "locks_query"
       THEN LET evs == LockEventsIn(st, win.from, win.to)
            IN Stepped(w, IF Len(evs) = 0
                          THEN [win EXCEPT !.pc = "unlocks_query"]
                          ELSE [win EXCEPT !.pc = "lock_insert", !.evs = evs, !.i = 1])
       ELSE IF win.pc = "lock_insert"
       THEN Stepped(LockInsert(w, c, ev), [win EXCEPT !.pc = "lock_enqueue"])
       ELSE IF win.pc = "lock_enqueue"
       THEN Stepped(LockEnqueue(w, c, ev),
                    IF win.i < Len(win.evs)
                    THEN [win EXCEPT !.pc = "lock_insert", !.i = @ + 1]
                    ELSE [win EXCEPT !.pc = "unlocks_query", !.evs = <<>>, !.i = 1])
       ELSE IF win.pc = "unlocks_query"
       THEN LET evs == UnlockEventsIn(st, win.from, win.to)
            IN IF Len(evs) = 0
               THEN WindowCommits(w, win)
               ELSE Stepped(w, [win EXCEPT !.pc = "unlock_status", !.evs = evs,
                                           !.i = 1])
       ELSE IF win.pc = "unlock_status"
       THEN Stepped(UnlockStatus(w, ev), [win EXCEPT !.pc = "unlock_insert"])
       ELSE IF win.pc = "unlock_insert"
       THEN IF HandleUnlockEventThrows(w, ev)
            THEN Stepped(w, [win EXCEPT !.pc = "thrown"])
            ELSE Stepped(UnlockInsert(w, c, ev), [win EXCEPT !.pc = "unlock_history"])
       ELSE IF win.i < Len(win.evs)
       THEN Stepped(w, [win EXCEPT !.pc = "unlock_status", !.i = @ + 1])
       ELSE WindowCommits(w, win)

----------------------------------------------------------------------------
(* The relayer (src/backend/src/services/relayer.js) *)

\* the relayer's wallet: the root submitter the bridges were deployed with
RelayerAddress == Deployer

\* Relayer.getFormattedLocks: the rows of the block as LockData structs
GetFormattedLocks(d, bn, sourceChain) ==
    LET rows == GetLockEventsByBlock(d, bn, sourceChain)
    IN [i \in 1..Len(rows) |->
            MkLockData(rows[i].token_id, rows[i].owner_address,
                       rows[i].recipient_address, rows[i].block_number,
                       rows[i].lock_hash)]

\* the hash of the n-th transaction of the relayer's wallet on chain dst,
\* one that calls setBlockRoot for block bn
RootTxHash(dst, bn, n) == <<"submit_root", dst, bn, n>>

\* the relayer's wallet has sent one more transaction on the chain
Sent(st) == [st EXCEPT !.sent = @ + 1]

\* the reasons the verifiers revert with as BridgeInvalidOperation(string),
\* the custom error of selector 3b25f18d
BridgeInvalidOperationReasons ==
    {"Root already submitted for block", "Lock count mismatch",
     "Lock block mismatch", "Root not set for block", "Root already used",
     "Root submitter cannot be zero"}

\* the test of submitBlockRoot's catch block: the error data holds the
\* selector 3b25f18d, or the message holds 'Root already submitted' or
\* 'Root already set'
TreatedAsAlreadySubmitted(reason) ==
    reason \in BridgeInvalidOperationReasons

\* a pre-check that finds a root whatever the destination holds
ExistingRootAlways(st, bn) == <<1>>

\* the pre-check of submitBlockRoot: blockRoots(blockNumber) (on Ethereum,
\* megaEthBlockRoots) of the destination
ExistingRoot(st, bn) == st.blockRoots[bn]

\* the message of the error of an await that throws because a node or the
\* database fails to answer
NodeError == "could not connect"

\* the test of the catch block of processUnlocksForBlock that takes every
\* failed unlock as made
AlreadyProcessedAlways(reason) == TRUE

\* the test of the catch block of processUnlocksForBlock: the message
\* holds 'Lock already processed'
AlreadyProcessed(reason) == reason = "Lock already processed"

\* a call of submitBlockRoot for a job, by a worker of the root queue or by
\* the monitor loop (rest: the pending rows the sweep has still to go
\* through), at its pre-check
MkCall(job, by, rest) ==
    [job |-> job, by |-> by, rest |-> rest, pc |-> "precheck", locks |-> <<>>,
     tx |-> <<>>, mined |-> "no", rows |-> <<>>, i |-> 1, proof |-> <<>>,
     unlock |-> "no", error |-> ""]

\* the loop of processUnlocksForBlock goes on at row i of the rows it read:
\* a row read as unlocked is passed over
RECURSIVE UnlockLoop(_, _, _)
UnlockLoop(w, c, i) ==
    IF i > Len(c.rows)
    THEN Stepped(w, [c EXCEPT !.pc = "done", !.rows = <<>>, !.i = 1,
                              !.proof = <<>>, !.unlock = "no"])
    ELSE IF c.rows[i].status = "unlocked"
    THEN UnlockLoop(w, c, i + 1)
    ELSE Stepped(w, [c EXCEPT !.pc = "unlock_proof", !.i = i, !.proof = <<>>,
                              !.unlock = "no"])

\* the unlock the call makes for row i of its rows, with the proof it read
UnlockOf(c) ==
    MkUnlock(c.rows[c.i].token_id, c.rows[c.i].recipient_address,
             c.rows[c.i].lock_hash, c.job.blockNumber, c.proof)

\* the unlock transaction of the call is mined on the destination
UnlockMined(w, c) ==
    LET dst == c.job.destinationChain
        tx == UnlockNFTWithProof(dst, w.ledger[dst], UnlockOf(c))
    IN IF tx.ok
       THEN Stepped([w EXCEPT !.ledger[dst] = tx.st], [c EXCEPT !.unlock = "ok"])
       ELSE Stepped(w, [c EXCEPT !.unlock = "reverted"])

\* the setBlockRoot transaction of the call is mined on the destination
RootMined(w, c) ==
    LET j == c.job
        tx == SetBlockRoot(w.ledger[j.destinationChain], RelayerAddress,
                           j.blockNumber, j.merkleRoot, Len(c.locks), c.locks)
    IN IF tx.ok
       THEN Stepped([w EXCEPT !.ledger[j.destinationChain] = tx.st],
                    [c EXCEPT !.mined = "ok"])
       ELSE Stepped(w, [c EXCEPT !.mined = "reverted"])

\* submitBlockRoot, and the processUnlocksForBlock it calls, from one await
\* to the next.  pc names the await the call is at: "precheck" the read of
\* the destination's root; "found_mark" updateBlockRootSubmission and
\* "found_status" updateLockEventsByBlock of the branch that found a root;
\* "locks" getFormattedLocks, "estimate" estimateGas, "send" the
\* transaction sent (it is mined by the time the call goes on when early,
\* else by the time its wait ends), "tx_row" createRelayerTransaction,
\* "wait" tx.wait, "mark" updateBlockRootSubmission, "tx_confirm"
\* updateRelayerTransaction, "status" updateLockEventsByBlock, "metric1"
\* and "metric2" the two recordMetric (they write a reporting table that is
\* left out, but they may throw); "reverted_mark" and "reverted_status" the
\* two updates of the catch block for a revert taken as 'already
\* submitted', "failed" its createFailedTransaction for any other error,
\* which stores error.message (error: the revert reason, or for an await
\* that threw the name of the await), "alert" the sendAlert after it, which
\* the call awaits before it throws (utils/alerts.js: it reaches neither
\* the database nor the chains);
\* "unlock_read" getLockEventsByBlock of processUnlocksForBlock, and for
\* row i "unlock_proof" getProof, "unlock_estimate" estimateGas of
\* unlockNFT, "unlock_send" its transaction sent (mined as the root's is),
\* "unlock_wait" tx.wait, "unlock_status" updateLockEventStatus after it,
\* "unlock_caught" the updateLockEventStatus of the catch block; "done" the
\* call has returned, "thrown" it has thrown.  What an await of the try
\* block throws goes to the catch block; what an await of the catch block
\* throws ends the call; what processUnlocksForBlock throws it swallows
CallStep(w, c, fault, early) ==
    LET j == c.job
        bn == j.blockNumber
        src == j.sourceChain
        dst == j.destinationChain
        to(pc) == [c EXCEPT !.pc = pc]
        failed(error) == [c EXCEPT !.pc = "failed", !.error = error]
        row == c.rows[c.i]
    IN IF c.pc = "failed"
       THEN IF fault
            THEN Stepped(w, to("thrown"))
            ELSE Stepped([w EXCEPT !.db =
                            CreateFailedTransaction(w.db, "submit_root", dst,
                                <<bn, src, dst, j.merkleRoot>>, c.error)],
                         to("alert"))
       ELSE IF c.pc = "alert"
       THEN Stepped(w, to("thrown"))
       ELSE IF c.pc \in {"reverted_mark", "reverted_status"} /\ fault
       THEN Stepped(w, to("thrown"))
       ELSE IF c.pc \in {"unlock_read", "unlock_caught"} /\ fault
       THEN Stepped(w, [c EXCEPT !.pc = "done", !.rows = <<>>, !.i = 1,
                                 !.proof = <<>>, !.unlock = "no"])
       ELSE IF c.pc = "unlock_proof" /\ fault
       THEN UnlockLoop(w, c, c.i + 1)
       ELSE IF c.pc \in {"unlock_estimate", "unlock_send", "unlock_wait",
                         "unlock_status"} /\ fault
       THEN IF AlreadyProcessed(NodeError)
            THEN Stepped(w, to("unlock_caught"))
            ELSE UnlockLoop(w, c, c.i + 1)
       ELSE IF fault
       THEN Stepped(w, failed(c.pc))
       ELSE IF c.pc = "precheck"
       THEN Stepped(w, IF ExistingRoot(w.ledger[dst], bn) # ZeroHash
                       THEN to("found_mark") ELSE to("locks"))
       ELSE IF c.pc \in {"found_mark", "mark", "reverted_mark"}
       THEN Stepped([w EXCEPT !.db = UpdateBlockRootSubmission(w.db, bn, src)],
                    to(IF c.pc = "found_mark" THEN "found_status"
                       ELSE IF c.pc = "mark" THEN "tx_confirm"
                       ELSE "reverted_status"))
       ELSE IF c.pc \in {"found_status", "status", "reverted_status"}
       THEN Stepped([w EXCEPT !.db = UpdateLockEventsByBlock(w.db, bn, src,
                                                             "root_submitted")],
                    to(IF c.pc = "found_status" THEN "done"
                       ELSE IF c.pc = "status" THEN "metric1"
                       ELSE "unlock_read"))
       ELSE IF c.pc = "metric1"
       THEN Stepped(w, to("metric2"))
       ELSE IF c.pc = "metric2"
       THEN Stepped(w, to("unlock_read"))
       ELSE IF c.pc = "locks"
       THEN LET locks == GetFormattedLocks(w.db, bn, src)
            IN IF Len(locks) = 0
               THEN Stepped(w, failed("No lock events recorded"))
               ELSE Stepped(w, [c EXCEPT !.pc = "estimate", !.locks = locks])
       ELSE IF c.pc = "estimate"
       THEN LET tx == SetBlockRoot(w.ledger[dst], RelayerAddress, bn, j.merkleRoot,
                                   Len(c.locks), c.locks)
            IN Stepped(w, IF tx.ok THEN to("send")
                          ELSE IF TreatedAsAlreadySubmitted(tx.reason)
                          THEN to("reverted_mark")
                          ELSE failed(tx.reason))
       ELSE IF c.pc = "send"
       THEN LET w1 == [w EXCEPT !.ledger[dst] = Sent(@)]
                c1 == [c EXCEPT !.pc = "tx_row",
                                !.tx = RootTxHash(dst, bn, w1.ledger[dst].sent)]
            IN IF early THEN RootMined(w1, c1) ELSE Stepped(w1, c1)
       ELSE IF c.pc = "tx_row"
       THEN IF CreateRelayerTransactionThrows(w.db, c.tx)
            THEN Stepped(w, failed(UniqueViolation))
            ELSE Stepped([w EXCEPT !.db = CreateRelayerTransaction(w.db, c.tx, dst,
                                                "submit_root", "pending")],
                         to("wait"))
       ELSE IF c.pc = "wait"
       THEN LET r == IF c.mined = "no" THEN RootMined(w, c) ELSE Stepped(w, c)
            IN Stepped(r.w, IF r.call.mined = "ok"
                            THEN [r.call EXCEPT !.pc = "mark"]
                            ELSE [r.call EXCEPT !.pc = "failed",
                                                !.error = "transaction reverted"])
       ELSE IF c.pc = "tx_confirm"
       THEN Stepped([w EXCEPT !.db = UpdateRelayerTransaction(w.db, c.tx, "confirmed")],
                    to("status"))
       ELSE IF c.pc = "unlock_read"
       THEN UnlockLoop(w, [c EXCEPT !.rows = GetLockEventsByBlock(w.db, bn, src)], 1)
       ELSE IF c.pc = "unlock_proof"
       THEN IF row.lock_hash \in DOMAIN w.db.merkle_proofs
            THEN Stepped(w, [c EXCEPT !.pc = "unlock_estimate",
                                      !.proof = w.db.merkle_proofs[row.lock_hash].proof])
            ELSE UnlockLoop(w, c, c.i + 1)
       ELSE IF c.pc = "unlock_estimate"
       THEN LET tx == UnlockNFTWithProof(dst, w.ledger[dst], UnlockOf(c))
                w1 == [w EXCEPT !.attempted = @ \cup {row.lock_hash}]
            IN IF tx.ok
               THEN Stepped(w1, to("unlock_send"))
               ELSE IF AlreadyProcessed(tx.reason)
               THEN Stepped(w1, to("unlock_caught"))
               ELSE UnlockLoop(w1, c, c.i + 1)
       ELSE IF c.pc = "unlock_send"
       THEN LET w1 == [w EXCEPT !.ledger[dst] = Sent(@)]
                c1 == to("unlock_wait")
            IN IF early THEN UnlockMined(w1, c1) ELSE Stepped(w1, c1)
       ELSE IF c.pc = "unlock_wait"
       THEN LET r == IF c.unlock = "no" THEN UnlockMined(w, c) ELSE Stepped(w, c)
            IN IF r.call.unlock = "ok"
               THEN Stepped(r.w, [r.call EXCEPT !.pc = "unlock_status"])
               ELSE UnlockLoop(r.w, r.call, c.i + 1)
       ELSE LET w1 == [w EXCEPT !.db = UpdateLockEventStatus(w.db, row.lock_hash,
                                                             "unlocked")]
            IN UnlockLoop(w1, c, c.i + 1)

\* a call run to its end with no other call in between, its n-th await
\* throwing (none, when n is 0), its transaction mined at once
RECURSIVE RunCall(_, _, _)
RunCall(w, c, n) ==
    IF c.pc \in {"done", "thrown"}
    THEN Stepped(w, c)
    ELSE LET r == CallStep(w, c, n = 1, TRUE)
         IN RunCall(r.w, r.call, IF n > 0 THEN n - 1 ELSE 0)

\* the arguments of a call of submitBlockRoot
MkSubmitJob(bn, sourceChain, dst, merkleRoot) ==
    [blockNumber |-> bn, sourceChain |-> sourceChain, destinationChain |-> dst,
     merkleRoot |-> merkleRoot, attemptsMade |-> 0]

\* the call processPendingRoots makes for a pending row
SweepJob(row) ==
    MkSubmitJob(row.block_number, row.source_chain, row.destination_chain,
                row.merkle_root)

\* Relayer.submitBlockRoot, run to its end: [ok, w], ok false when it throws
SubmitBlockRoot(w, bn, sourceChain, dst, merkleRoot) ==
    LET r == RunCall(w, MkCall(MkSubmitJob(bn, sourceChain, dst, merkleRoot),
                               "worker", <<>>), 0)
    IN [ok |-> r.call.pc = "done", w |-> r.w]

\* Relayer.processUnlocksForBlock, run to its end
ProcessUnlocksForBlock(w, bn, sourceChain, dst) ==
    RunCall(w, [MkCall(MkSubmitJob(bn, sourceChain, dst, ZeroHash), "worker", <<>>)
                    EXCEPT !.pc = "unlock_read"], 0).w

\* the loop of Relayer.processPendingRoots over the pending rows, from row
\* i on, run to its end; a submission that throws ends it
RECURSIVE PendingRootsFrom(_, _, _)
PendingRootsFrom(w, rows, i) ==
    IF i > Len(rows)
    THEN w
    ELSE LET j == SweepJob(rows[i])
             r == SubmitBlockRoot(w, j.blockNumber, j.sourceChain,
                                  j.destinationChain, j.merkleRoot)
         IN IF r.ok THEN PendingRootsFrom(r.w, rows, i + 1) ELSE r.w

\* Relayer.processPendingRoots, one turn of monitorLoop, when
\* getPendingBlockRoots gives rows
ProcessPendingRoots(w, rows) == PendingRootsFrom(w, rows, 1)


\* what submitBlockRoot does once its pre-check has found a root on the
\* destination, run to its end
ReconcileExistingRoot(w, bn, sourceChain, dst) ==
    RunCall(w, [MkCall(MkSubmitJob(bn, sourceChain, dst, ZeroHash), "worker", <<>>)
                    EXCEPT !.pc = "found_mark"], 0).w

\* what the catch block of submitBlockRoot does for a revert taken as
\* 'already submitted', run to its end
ReconcileRevertedRoot(w, bn, sourceChain, dst) ==
    RunCall(w, [MkCall(MkSubmitJob(bn, sourceChain, dst, ZeroHash), "worker", <<>>)
                    EXCEPT !.pc = "reverted_mark"], 0).w
----------------------------------------------------------------------------
(* The relay at work.  Users lock; the listeners, the workers of the two   *)
(* queues (src/backend/src/queue/index.js) and the monitor loop each go on *)
(* from one await to the next, the steps of the calls in flight in any     *)
(* order.                                                                  *)

\* the tokens locked in a run of the relay: at most MaxRelayLocks
MaxRelayLocks == 2

\* the errors and stops of a run, at most
MaxFaults == 1

\* the monitor loops alive at a time, at most
MaxLoops == 2

\* the calls of the relay (of a listener, of generateProofForBlock, of
\* submitBlockRoot) that start in a run while another is in flight, at most
MaxOverlaps == 1

\* the timers of a listener alive at a time, at most
MaxTimers == 2

\* the calls of start() in a run, of the listeners and of the relayer, at
\* most
MaxStarts == 2

\* config.queue.proofGenerationConcurrency, rootSubmissionConcurrency
ProofGenerationConcurrency == 5
RootSubmissionConcurrency == 2

\* the bag b with one copy of old replaced by new
BagReplace(b, old, new) == BagAdd(BagRemove(b, old), new)

\* the calls of the relay's process in flight
InFlight(p) ==
    BagSize(p.listener[ETH].calls) + BagSize(p.listener[MEGA].calls)
        + Cardinality(p.builds) + BagSize(p.calls)

\* the relay's process goes from p to q: when q has a call more in flight
\* and p had one already, one more of the run's MaxOverlaps
Overlapped(p, q) ==
    LET overlap == InFlight(q) > InFlight(p) /\ InFlight(p) > 0
    IN /\ overlap => nOverlaps < MaxOverlaps
       /\ nOverlaps' = IF overlap THEN nOverlaps + 1 ELSE nOverlaps

\* a step of the relay leaves w
RelayCommit(w) ==
    /\ Overlapped(proc, w.proc)
    /\ ledger' = [c \in Chains |-> Mined(w.ledger[c], blockNumber[c])]
    /\ db' = w.db
    /\ queue' = w.queue
    /\ proc' = w.proc
    /\ checkpoint' = w.checkpoint
    /\ UNCHANGED <<blockNumber, nLocks, nForged, nAdmin>>

\* the await of a step throws (a node or the database fails to answer)
\* when fault: one more of the run's MaxFaults
Faulted(fault) ==
    /\ fault => nFaults < MaxFaults
    /\ nFaults' = IF fault THEN nFaults + 1 ELSE nFaults

\* a job that threw is tried again until it has thrown `attempts` times
Retried(q, job, attempts) ==
    IF job.attemptsMade + 1 < attempts
    THEN BagAdd(q, [job EXCEPT !.attemptsMade = @ + 1])
    ELSE q

\* a user locks the token they own for user 1
UserLock ==
    /\ nLocks < MaxRelayLocks
    /\ \E c \in Chains, sender \in Users, tokenId \in Tokens :
        LET out == Lock(c, ledger[c], sender, tokenId, 1, blockNumber[c])
        IN /\ blockNumber[c] \in Blocks
           /\ out.ok
           /\ Commit(c, out)
           /\ nLocks' = nLocks + 1
           /\ UNCHANGED <<blockNumber, nForged, nAdmin>>

\* a user locks tokens they own in a batch for user 1
UserBatchLock ==
    \E tokenIds \in BatchLockInputs \ {<<>>} :
        /\ nLocks + Len(tokenIds) <= MaxRelayLocks
        /\ \E c \in Chains, sender \in Users :
            LET out == BatchLock(c, ledger[c], sender, tokenIds, 1, blockNumber[c])
            IN /\ blockNumber[c] \in Blocks
               /\ out.ok
               /\ Commit(c, out)
               /\ nLocks' = nLocks + Len(tokenIds)
               /\ UNCHANGED <<blockNumber, nForged, nAdmin>>

\* a block is mined on chain c, once it holds an event of the verifier (the
\* runs leave out the blocks without events); the block after the last one
\* locks can land in is mined too
MineBlock ==
    \E c \in Chains :
        /\ blockNumber[c] <= MaxBlock
        /\ \/ LockEventsIn(ledger[c], blockNumber[c], blockNumber[c]) # <<>>
           \/ UnlockEventsIn(ledger[c], blockNumber[c], blockNumber[c]) # <<>>
        /\ blockNumber' = [blockNumber EXCEPT ![c] = @ + 1]
        /\ UNCHANGED <<ledger, nLocks, nForged, nAdmin, db, queue, proc, nFaults, nOverlaps,
                       checkpoint>>

\* the timers of a listener, set or to be set by its calls of start() in
\* flight
TimersAhead(l) ==
    l.timers + BagSize([x \in {y \in DOMAIN l.calls : y.startup} |-> l.calls[x]])

\* EventListener.start, up to its first await: isRunning is set
StartListener ==
    \E c \in Chains :
        LET p == [proc EXCEPT
                        !.starts = @ + 1,
                        !.listener[c].isRunning = TRUE,
                        !.listener[c].calls =
                            BagAdd(@, MkListenerCall(c, "resume", TRUE))]
        IN /\ ~proc.listener[c].isRunning
           /\ proc.starts < MaxStarts
           /\ TimersAhead(proc.listener[c]) < MaxTimers
           /\ Overlapped(proc, p)
           /\ proc' = p
           /\ UNCHANGED <<ledger, blockNumber, nLocks, nForged, nAdmin, db, queue,
                          nFaults, checkpoint>>

\* EventListener.stop, whatever the listener is doing: isRunning is cleared
\* and so is the timer of the handle held; the other timers and the calls
\* in flight are left to themselves (on a listener that is stopped and
\* holds no timer the call changes nothing)
StopListener ==
    \E c \in Chains :
        /\ proc.listener[c].isRunning \/ proc.listener[c].pollingInterval
        /\ proc' = [proc EXCEPT !.listener[c] =
                        ClearPollingInterval([@ EXCEPT !.isRunning = FALSE])]
        /\ UNCHANGED <<ledger, blockNumber, nLocks, nForged, nAdmin, db, queue,
                       nFaults, nOverlaps, checkpoint>>

\* the timer's callback without its look at isRunning
PollWhileStopped(l, c) ==
    [l EXCEPT !.calls = BagAdd(@, MkListenerCall(c, "poll", FALSE))]

\* a timer of startPolling fires, up to the callback's first await: on a
\* stopped listener it clears the timer of the handle held (its own or
\* another) and returns, on a running one it asks for the head, whether or
\* not an earlier call is still at work
PollCallback(l, c) ==
    IF ~l.isRunning
    THEN ClearPollingInterval(l)
    ELSE [l EXCEPT !.calls = BagAdd(@, MkListenerCall(c, "poll", FALSE))]

\* a timer of the listener of a chain fires
Poll ==
    \E c \in Chains :
        LET p == [proc EXCEPT !.listener[c] = PollCallback(@, c)]
        IN /\ proc.listener[c].timers > 0
           /\ Overlapped(proc, p)
           /\ proc' = p
           /\ UNCHANGED <<ledger, blockNumber, nLocks, nForged, nAdmin, db, queue,
                          nFaults, checkpoint>>

\* the jobs of the two queues that workers of the process hold: those of
\* the builds and of the workers' calls of submitBlockRoot in flight
HeldProofJobs(p) == {b.job : b \in p.builds}
HeldRootJobs(p) == {c.job : c \in {x \in DOMAIN p.calls : x.by = "worker"}}

\* the process is gone and is started again in its environment: its memory
\* is empty, and the jobs its workers held are back in their queues, to be
\* taken again (the queues are Bull's: a job whose worker is gone is
\* stalled, and stalled jobs are moved back to waiting)
Exited(w) ==
    LET p == w.proc
        proofs == HeldProofJobs(p)
        roots == HeldRootJobs(p)
        q == w.queue
    IN [w EXCEPT
          !.proc = [EmptyProc EXCEPT !.starts = p.starts,
                                     !.monitor.pauseOnError = p.monitor.pauseOnError],
          !.queue.proofQueue =
              [job \in DOMAIN q.proofQueue \cup proofs |->
                  (IF job \in DOMAIN q.proofQueue THEN q.proofQueue[job] ELSE 0)
                    + Cardinality({b \in p.builds : b.job = job})],
          !.queue.rootQueue =
              [job \in DOMAIN q.rootQueue \cup roots |->
                  (IF job \in DOMAIN q.rootQueue THEN q.rootQueue[job] ELSE 0)
                    + BagSize([c \in {x \in DOMAIN p.calls :
                                        x.by = "worker" /\ x.job = job} |->
                                    p.calls[c]])]]

\* the relay's process after a call of a listener has gone on to call:
\* a call that returned or threw is over; processBlock and the timer's
\* callback swallow what a poll throws, a start() that throws ends the
\* process
AfterListenerStep(w, old, call) ==
    IF call.pc = "thrown" /\ call.startup
    THEN Exited(w)
    ELSE IF call.pc \in {"done", "thrown"}
    THEN [w EXCEPT !.proc.listener[old.chain].calls = BagRemove(@, old)]
    ELSE [w EXCEPT !.proc.listener[old.chain].calls = BagReplace(@, old, call)]

\* a call of a listener goes on to its next await
Listen ==
    \E c \in Chains :
        \E call \in DOMAIN proc.listener[c].calls, fault \in BOOLEAN :
            LET r == ListenerStep(World, call, fault)
            IN /\ Faulted(fault)
               /\ RelayCommit(AfterListenerStep(r.w, call, r.call))

\* the process is killed
Crash ==
    /\ nFaults < MaxFaults
    /\ proc # Exited(World).proc
    /\ nFaults' = nFaults + 1
    /\ proc' = Exited(World).proc
    /\ queue' = Exited(World).queue
    /\ UNCHANGED <<ledger, blockNumber, nLocks, nForged, nAdmin, db,
                   nOverlaps, checkpoint>>

\* a worker of the proof queue takes a job and calls generateProofForBlock,
\* up to its first await: the call returns at once when the key is being
\* processed (the job is done), else it adds the key and asks for the
\* block's locks
ProofJob ==
    \E job \in DOMAIN queue.proofQueue :
        LET w == [World EXCEPT !.queue.proofQueue = BagRemove(@, job)]
        IN /\ Cardinality(proc.builds) < ProofGenerationConcurrency
           /\ UNCHANGED nFaults
           /\ RelayCommit(
                IF AlreadyProcessing(proc, BuildKey(job))
                THEN w
                ELSE [w EXCEPT !.proc.processing = @ \cup {BuildKey(job)},
                               !.proc.builds = @ \cup {MkBuild(job)}])

\* the relay's process after a build has gone on to b: a build that
\* returned is over, one that threw leaves its job to its next attempt
AfterBuildStep(w, old, b) ==
    IF b.pc = "done"
    THEN [w EXCEPT !.proc.builds = @ \ {old}]
    ELSE IF b.pc = "thrown"
    THEN [w EXCEPT !.proc.builds = @ \ {old},
                   !.queue.proofQueue = Retried(@, old.job, ProofAttempts)]
    ELSE [w EXCEPT !.proc.builds = (@ \ {old}) \cup {b}]

\* a build goes on to its next await
Build ==
    \E b \in proc.builds, fault \in BOOLEAN :
        LET r == BuildStep(World, b, fault)
        IN /\ Faulted(fault)
           /\ RelayCommit(AfterBuildStep(r.w, b, r.call))

\* the commitment a call of submitBlockRoot is for
CommitmentOf(job) == <<job.blockNumber, job.sourceChain, job.destinationChain>>

\* the relay's process once a call of submitBlockRoot has started
Called(p, c) ==
    [p EXCEPT !.calls = BagAdd(@, c),
              !.raced = IF \E x \in DOMAIN p.calls :
                                CommitmentOf(x.job) = CommitmentOf(c.job)
                        THEN @ \cup {CommitmentOf(c.job)}
                        ELSE @]

\* a worker of the root queue takes a job and calls submitBlockRoot, up to
\* its first await
RootJob ==
    \E job \in DOMAIN queue.rootQueue :
        /\ BagSize([c \in {x \in DOMAIN proc.calls : x.by = "worker"} |->
                        proc.calls[c]]) < RootSubmissionConcurrency
        /\ UNCHANGED nFaults
        /\ RelayCommit([World EXCEPT
                            !.queue.rootQueue = BagRemove(@, job),
                            !.proc = Called(@, MkCall(job, "worker", <<>>))])

\* the monitor loop comes to the top of its while loop: the next turn
\* (processPendingRoots asks for the pending rows), or the end of the loop
LoopTurns(p) ==
    IF p.monitor.isRunning THEN [p EXCEPT !.monitor.reading = @ + 1] ELSE p

\* the catch block of the monitor loop: under pauseOnError the loop sends
\* an alert, else it comes to its next turn at once
LoopCatches(p) ==
    IF p.monitor.pauseOnError
    THEN [p EXCEPT !.monitor.alerting = @ + 1]
    ELSE LoopTurns(p)

\* processPendingRoots goes on to the next of its pending rows, or returns
\* and the loop goes to sleep
SweepGoesOn(p, rows) ==
    IF Len(rows) = 0
    THEN [p EXCEPT !.monitor.sleeping = @ + 1]
    ELSE Called(p, MkCall(SweepJob(rows[1]), "monitor", Tail(rows)))

\* the relay's process after a call of submitBlockRoot has gone on to c: a
\* worker's call that returned is over, one that threw leaves its job to
\* its next attempt; the sweep goes on after a call that returned, and the
\* monitor loop catches what a call throws
AfterCallStep(w, old, c) ==
    LET gone == [w EXCEPT !.proc.calls = BagRemove(@, old)]
    IN IF c.pc \notin {"done", "thrown"}
       THEN [w EXCEPT !.proc.calls = BagReplace(@, old, c)]
       ELSE IF c.by = "worker"
       THEN IF c.pc = "done"
            THEN gone
            ELSE [gone EXCEPT !.queue.rootQueue = Retried(@, old.job, RootAttempts)]
       ELSE IF c.pc = "done"
       THEN [gone EXCEPT !.proc = SweepGoesOn(@, old.rest)]
       ELSE [gone EXCEPT !.proc = LoopCatches(@)]

\* a call of submitBlockRoot goes on to its next await, which may throw
\* unless it is the await of sendAlert
Submit ==
    \E c \in DOMAIN proc.calls, fault \in BOOLEAN, early \in BOOLEAN :
        LET r == CallStep(World, c, fault, early)
        IN /\ early => c.pc \in {"send", "unlock_send"} /\ ~fault
           /\ fault => c.pc # "alert"
           /\ Faulted(fault)
           /\ RelayCommit(AfterCallStep(r.w, c, r.call))

\* the monitor loops alive: in start(), at the read of the pending rows, in
\* a call of submitBlockRoot, at the alert of the catch block, asleep
MonitorLoops(p) ==
    p.monitor.starting + p.monitor.reading + p.monitor.alerting
        + p.monitor.sleeping
        + BagSize([c \in {x \in DOMAIN p.calls : x.by = "monitor"} |-> p.calls[c]])

\* Relayer.start, up to its await of checkBalances: isRunning is set
RelayerStart ==
    /\ ~proc.monitor.isRunning
    /\ MonitorLoops(proc) < MaxLoops
    /\ proc.starts < MaxStarts
    /\ proc' = [proc EXCEPT !.starts = @ + 1,
                            !.monitor.isRunning = TRUE,
                            !.monitor.starting = @ + 1]
    /\ UNCHANGED <<ledger, blockNumber, nLocks, nForged, nAdmin, db, queue,
                   nFaults, nOverlaps, checkpoint>>

\* Relayer.stop
RelayerStop ==
    /\ proc.monitor.isRunning
    /\ proc' = [proc EXCEPT !.monitor.isRunning = FALSE]
    /\ UNCHANGED <<ledger, blockNumber, nLocks, nForged, nAdmin, db, queue,
                   nFaults, nOverlaps, checkpoint>>

\* start() goes on after checkBalances: monitorLoop is called and comes to
\* its first turn; a checkBalances that throws makes start() throw, which
\* ends the process
LoopBegins ==
    \E fault \in BOOLEAN :
        /\ proc.monitor.starting > 0
        /\ Faulted(fault)
        /\ proc' = IF fault
                   THEN Exited(World).proc
                   ELSE LoopTurns([proc EXCEPT !.monitor.starting = @ - 1])
        /\ queue' = IF fault THEN Exited(World).queue ELSE queue
        /\ UNCHANGED <<ledger, blockNumber, nLocks, nForged, nAdmin, db,
                       nOverlaps, checkpoint>>

\* processPendingRoots goes on after getPendingBlockRoots with the pending
\* rows in one of the orders the query may give them in: its first call of
\* submitBlockRoot, or its return when there is none; a read that throws
\* is caught by the loop
LoopSweeps ==
    \E fault \in BOOLEAN :
        \E rows \in GetPendingBlockRoots(db) :
            LET p == [proc EXCEPT !.monitor.reading = @ - 1]
                q == IF fault THEN LoopCatches(p) ELSE SweepGoesOn(p, rows)
            IN /\ proc.monitor.reading > 0
               /\ Faulted(fault)
               /\ Overlapped(proc, q)
               /\ proc' = q
               /\ UNCHANGED <<ledger, blockNumber, nLocks, nForged, nAdmin, db,
                              queue, checkpoint>>

\* the sendAlert of the catch block returns and the loop goes to sleep for
\* its pause: sendAlert catches what its fetch throws and an answer that
\* is not ok itself, so the await never throws, whether the alert was
\* sent, failed, or no webhook is set
LoopAlerts ==
    /\ proc.monitor.alerting > 0
    /\ proc' = [proc EXCEPT !.monitor.alerting = @ - 1,
                            !.monitor.sleeping = @ + 1]
    /\ UNCHANGED <<ledger, blockNumber, nLocks, nForged, nAdmin, db, queue,
                   nFaults, nOverlaps, checkpoint>>

\* a monitor loop wakes up and comes to its next turn
LoopWakes ==
    /\ proc.monitor.sleeping > 0
    /\ proc' = LoopTurns([proc EXCEPT !.monitor.sleeping = @ - 1])
    /\ UNCHANGED <<ledger, blockNumber, nLocks, nForged, nAdmin, db, queue,
                   nFaults, nOverlaps, checkpoint>>

\* the relay's process once the two listeners were started, before the
\* first block of either chain: each is running with its poll timer set
RunningProc ==
    [EmptyProc EXCEPT !.listener =
        [c \in Chains |-> StartPolling([EmptyListener EXCEPT !.isRunning = TRUE])]]
----------------------------------------------------------------------------
(* The proof generator behind the listener: the locks of one block are in  *)
(* the chain's log, the listener records them one by one and queues a proof *)
(* job each time it handles one, and the builds run in between              *)

\* locks of one block: at most MaxLeaves of them
MaxLeaves == 3

\* the token ids locked in the block, each at most once
BuilderTokens == 1..MaxLeaves

\* the NFTLocked events block bn of a chain may hold: user 1 locks a token
\* for user 1
BuilderLocks(chain, bn) ==
    { MkLockData(t, 1, 1, bn, LockHash(t, 1, 1, bn, BridgeAddress(chain))) :
        t \in BuilderTokens }

\* the sequences of at least one and at most n different elements of S
RECURSIVE DistinctSeqs(_, _)
DistinctSeqs(S, n) ==
    IF n = 1
    THEN {<<x>> : x \in S}
    ELSE LET shorter == DistinctSeqs(S, n - 1)
         IN shorter \cup
            UNION { {Append(q, x) : x \in S \ {q[i] : i \in 1..Len(q)}} :
                        q \in {r \in shorter : Len(r) = n - 1} }

\* the log of a verifier after the events evs, from event i on
RECURSIVE LoggedFrom(_, _, _)
LoggedFrom(st, evs, i) ==
    IF i > Len(evs) THEN st ELSE LoggedFrom(EmitLocked(st, evs[i]), evs, i + 1)

\* the relay is up and block 1 of a chain is mined with the locks of up to
\* MaxLeaves tokens in it (of the verifier only the log is followed here);
\* the run has one error ahead, or one call that starts while another is in
\* flight
BuilderInit ==
    /\ nLocks = 0
    /\ nForged = 0
    /\ nAdmin = 0
    /\ db = EmptyDb
    /\ queue = EmptyQueue
    /\ proc = RunningProc
    /\ \/ nFaults = 0 /\ nOverlaps = MaxOverlaps
       \/ nFaults = MaxFaults /\ nOverlaps = 0
    /\ checkpoint = [c \in Chains |-> 0]
    /\ \E chain \in Chains :
        \E evs \in DistinctSeqs(BuilderLocks(chain, 1), MaxLeaves) :
            /\ \A i, k \in 1..Len(evs) : i # k => evs[i].tokenId # evs[k].tokenId
            /\ ledger = [c \in Chains |->
                            IF c = chain THEN LoggedFrom(InitLedger(c), evs, 1)
                            ELSE InitLedger(c)]
            /\ blockNumber = [c \in Chains |-> IF c = chain THEN 2 ELSE 1]

BuilderNext ==
    \/ Poll
    \/ Listen
    \/ ProofJob
    \/ Build

BuilderSpec == BuilderInit /\ [][BuilderNext]_vars

\* the rows of lock_events
LockRows == {db.lock_events[i] : i \in 1..Len(db.lock_events)}

\* the locks recorded for block bn of a chain, and what the proof generator
\* has stored for them
BlockLocks(bn, chain) == GetLockEventsByBlock(db, bn, chain)
HasRoot(bn, chain) == RootKey(bn, chain) \in DOMAIN db.block_roots
StoredRoot(bn, chain) == db.block_roots[RootKey(bn, chain)].merkle_root
StoredProof(lockHash) == db.merkle_proofs[lockHash].proof

\* the leaf of a row of lock_events as the verifier computes it from the
\* arguments of the unlock the relayer sends for the row
RowLeaf(row) ==
    LeafHash(row.token_id, row.recipient_address, row.lock_hash, row.block_number)

\* C15: for a block with exactly one recorded lock, whether or not the
\* chain's log holds more locks of the block still to be recorded, the root
\* the proof generator stores is the lock's leaf hash(tokenId, recipient,
\* lockHash, blockNumber), the proof it stores is the empty list, and the
\* verifier's MerkleProof.verify accepts the leaf with the empty proof
\* against the root; and a call of generateProofForBlock run to its end
\* stores that root
C15_Theorem ==
    \A chain \in Chains, bn \in Blocks :
        LET locks == BlockLocks(bn, chain)
        IN Len(locks) = 1 =>
            /\ HasRoot(bn, chain) =>
                /\ StoredRoot(bn, chain) = RowLeaf(locks[1])
                /\ StoredProof(locks[1].lock_hash) = <<>>
                /\ MerkleVerify(<<>>, StoredRoot(bn, chain), RowLeaf(locks[1]))
                /\ db.block_roots[RootKey(bn, chain)].lock_count = 1
            /\ ~AlreadyProcessing(proc, <<chain, bn>>) =>
                LET built == GenerateProofForBlock(World, bn, chain).db
                IN /\ built.block_roots[RootKey(bn, chain)].merkle_root
                        = RowLeaf(locks[1])
                   /\ built.merkle_proofs[locks[1].lock_hash].proof = <<>>

\* a block with one recorded lock whose build has run while the listener
\* had still to record the block's other locks: root and proof are stored,
\* the root job is queued
C15_Witness ==
    \E chain \in Chains, bn \in Blocks :
        /\ Len(LockEventsIn(ledger[chain], bn, bn)) >= 2
        /\ Len(BlockLocks(bn, chain)) = 1
        /\ HasRoot(bn, chain)
        /\ StoredRoot(bn, chain) = RowLeaf(BlockLocks(bn, chain)[1])
        /\ StoredProof(BlockLocks(bn, chain)[1].lock_hash) = <<>>
        /\ proc.builds = {}
        /\ BagSize(queue.rootQueue) = 1

\* in the database d each of the locks verifies against the root stored
\* for block bn with the proof stored for it, under the verifier's
\* pair-sorted folding, and no other of the locks verifies with that proof
EachVerifiesAlone(d, locks, bn, chain) ==
    \A i \in 1..Len(locks) :
        LET proof == d.merkle_proofs[locks[i].lock_hash].proof
            root == d.block_roots[RootKey(bn, chain)].merkle_root
        IN /\ MerkleVerify(proof, root, RowLeaf(locks[i]))
           /\ \A j \in 1..Len(locks) :
                j # i => ~MerkleVerify(proof, root, RowLeaf(locks[j]))

\* C16: for a block with two or more recorded locks, in whatever order they
\* were recorded and whatever builds ran while they were being recorded, a
\* call of generateProofForBlock run to its end stores a root and proofs
\* such that each lock's leaf verifies against the root with the proof
\* stored for it and no other lock's leaf verifies with that proof; so do
\* the stored root and proofs whenever the stored root counts all the
\* recorded locks; and every proof a build has stored verifies its lock's
\* leaf, and the leaf of no other lock of the block, against the root
\* stored with it
C16_Theorem ==
    \A chain \in Chains, bn \in Blocks :
        LET locks == BlockLocks(bn, chain)
        IN Len(locks) >= 2 =>
            /\ ~AlreadyProcessing(proc, <<chain, bn>>) =>
                    EachVerifiesAlone(GenerateProofForBlock(World, bn, chain).db,
                                      locks, bn, chain)
            /\ (/\ HasRoot(bn, chain)
                /\ db.block_roots[RootKey(bn, chain)].lock_count = Len(locks))
                    => EachVerifiesAlone(db, locks, bn, chain)
            /\ \A i \in 1..Len(locks) :
                    locks[i].lock_hash \in DOMAIN db.merkle_proofs =>
                        LET p == db.merkle_proofs[locks[i].lock_hash]
                        IN /\ MerkleVerify(p.proof, p.merkle_root, RowLeaf(locks[i]))
                           /\ \A j \in 1..Len(locks) :
                                j # i => ~MerkleVerify(p.proof, p.merkle_root,
                                                       RowLeaf(locks[j]))

\* a block with three recorded locks built once more after a build that
\* ran before the last of them was recorded (the root job of that build is
\* still queued): the third leaf has no sibling in the first layer, and its
\* stored proof is one hash
C16_Witness ==
    \E chain \in Chains, bn \in Blocks :
        LET locks == BlockLocks(bn, chain)
        IN /\ Len(locks) = 3
           /\ HasRoot(bn, chain)
           /\ db.block_roots[RootKey(bn, chain)].lock_count = 3
           /\ Len(StoredProof(locks[3].lock_hash)) = 1
           /\ Len(StoredProof(locks[1].lock_hash)) = 2
           /\ HashLess(RowLeaf(locks[2]), RowLeaf(locks[1]))
           /\ \E job \in DOMAIN queue.rootQueue :
                    job.merkleRoot # StoredRoot(bn, chain)
----------------------------------------------------------------------------
(* The pipeline: locks, the listeners, the two queues' workers *)

\* a chain once every user has granted its verifier their tokens
ApprovedLedger(c) ==
    [InitLedger(c) EXCEPT !.operatorApprovals = {<<u, BridgeAddress(c)>> : u \in Users}]

\* the chains once every user has granted the verifiers their tokens
ApprovedInit ==
    /\ ledger = [c \in Chains |-> ApprovedLedger(c)]
    /\ blockNumber = [c \in Chains |-> 1]
    /\ nLocks = 0
    /\ nForged = 0
    /\ nAdmin = 0

\* the relay is up, and the run has no errors of nodes or database
QuietInit ==
    /\ ApprovedInit
    /\ db = EmptyDb
    /\ queue = EmptyQueue
    /\ proc = RunningProc
    /\ nFaults = MaxFaults
    /\ nOverlaps = 0
    /\ checkpoint = [c \in Chains |-> 0]

RelayNext ==
    \/ MineBlock
    \/ UserLock
    \/ UserBatchLock
    \/ Poll
    \/ Listen
    \/ ProofJob
    \/ Build
    \/ RootJob
    \/ Submit

RelaySpec == QuietInit /\ [][RelayNext]_vars


\* the leaves folded into the root of a row of block_roots: those of the
\* first lock_count rows of its block (rows are only ever added, in the
\* order of created_at)
FoldedLocks(k) ==
    SubSeq(GetLockEventsByBlock(db, k[1], k[2]), 1, db.block_roots[k].lock_count)

\* C17: every leaf folded into a stored block root is the leaf of exactly
\* one row of lock_events, a row of the root's block and source chain with
\* the leaf's token id, recipient, lock hash and block number: the stored
\* root is the root of the tree over the leaves of the first lock_count rows
\* of that block and chain
C17_Theorem ==
    \A k \in DOMAIN db.block_roots :
        LET row == db.block_roots[k]
            all == GetLockEventsByBlock(db, k[1], k[2])
            folded == FoldedLocks(k)
        IN /\ row.lock_count >= 1
           /\ row.lock_count <= Len(all)
           /\ row.merkle_root = MerkleRoot(BuilderLeaves(folded, k[1]))
           /\ \A i \in 1..Len(folded) :
                /\ folded[i].block_number = k[1]
                /\ folded[i].chain = k[2]
                /\ BuilderLeaves(folded, k[1])[i] = RowLeaf(folded[i])
                /\ Cardinality({r \in LockRows : RowLeaf(r) = RowLeaf(folded[i])}) = 1
                /\ \E d \in DOMAIN ledger[k[2]].NFTLocked :
                        /\ d.tokenId = folded[i].token_id
                        /\ d.recipient = folded[i].recipient_address
                        /\ d.lockHash = folded[i].lock_hash
                        /\ d.blockNumber = folded[i].block_number

\* a root was stored for a block of one chain while the other chain has a
\* recorded lock in its block of the same number
C17_Witness ==
    \E k \in DOMAIN db.block_roots :
        /\ db.block_roots[k].lock_count = Len(GetLockEventsByBlock(db, k[1], k[2]))
        /\ Len(GetLockEventsByBlock(db, k[1], k[3])) > 0

\* the lock hash of a row of lock_events is processed on the verifier of the
\* row's destination chain
ProcessedOnDestination(r) ==
    r.lock_hash \in ledger[Other(r.chain)].processedLocks

\* C18 as stated: at all times the status of a row of lock_events is
\* 'unlocked' if and only if its lock hash is in processedLocks on the
\* destination verifier
C18_UnlockedIffProcessed ==
    \A r \in LockRows : r.status = "unlocked" <=> ProcessedOnDestination(r)

\* the place of a status in the order pending, proof_generated,
\* root_submitted, unlocked
StatusRank(status) ==
    CASE status = "pending" -> 1
      [] status = "proof_generated" -> 2
      [] status = "root_submitted" -> 3
      [] status = "unlocked" -> 4
      [] OTHER -> 5

\* C19 as stated: no step of listener, proof generator or relayer writes an
\* earlier status over a later one, a repeated build of a block and a
\* repeated root submission for it included
C19_StatusOnlyAdvances ==
    [][ \A i \in 1..Len(db.lock_events) :
            StatusRank(db'.lock_events[i].status) >= StatusRank(db.lock_events[i].status) ]_vars

\* the lock records an insert may carry for lock hash h: any token, owner,
\* recipient, block and chain, status pending
InsertsFor(h) ==
    { MkLockEvent(t, o, r, h, bn, c, "pending") :
        t \in Tokens, o \in Users, r \in Users, bn \in Blocks, c \in Chains }

\* C20: createLockEvent for a lock hash already in lock_events changes
\* nothing, whatever the other fields of the insert: one row for the hash,
\* every field of it as before, its status included; and the listener's
\* handling of an NFTLocked event seen before leaves lock_events as it is
C20_Theorem ==
    /\ \A r \in LockRows :
        /\ Cardinality(RowsOf(db, r.lock_hash)) = 1
        /\ \A row \in InsertsFor(r.lock_hash) : CreateLockEvent(db, row) = db
    /\ \A chain \in Chains :
        \A ev \in DOMAIN ledger[chain].NFTLocked :
            (\E r \in LockRows : r.lock_hash = ev.lockHash) =>
                HandleLockEvent(World, chain, ev).db = db

\* a lock was recorded and has gone on to unlocked, and the listener meets
\* its NFTLocked event again
C20_Witness ==
    \E chain \in Chains :
        \E ev \in DOMAIN ledger[chain].NFTLocked :
            \E r \in LockRows :
                /\ r.lock_hash = ev.lockHash
                /\ r.status = "unlocked"
                /\ Len(db.lock_events) = 2
                /\ HandleLockEvent(World, chain, ev).db = db

\* C22 as stated: per chain, lastProcessedBlock of a running listener never
\* decreases, whatever the order in which overlapping windows end
C22_LastProcessedMonotone ==
    [][ \A c \in Chains :
            (proc.listener[c].isRunning /\ proc'.listener[c].isRunning) =>
                proc'.listener[c].lastProcessedBlock >= proc.listener[c].lastProcessedBlock ]_vars

\* no step of the indexer, the builder or the relay is enabled or will be
\* without a new lock: the queues are empty, no call is in flight, every
\* event is in a mined block the chain's listener has processed, and no
\* commitment is pending for the monitor loop's sweep; a behaviour that
\* stays in such a state is fair
PipelineIdle ==
    /\ queue = EmptyQueue
    /\ InFlight(proc) = 0
    /\ \A c \in Chains :
        /\ proc.listener[c].timers > 0
        /\ proc.listener[c].lastProcessedBlock >= HeadOf(World, c)
        /\ LockEventsIn(ledger[c], blockNumber[c], blockNumber[c]) = <<>>
        /\ UnlockEventsIn(ledger[c], blockNumber[c], blockNumber[c]) = <<>>
    /\ GetPendingBlockRoots(db) = {<<>>}

\* C25 as stated, on the states the fair pipeline can stay in for ever:
\* every lock performed on one verifier is processed on the other verifier
\* and its lock record has status 'unlocked'
C25_IdleMeansUnlocked ==
    PipelineIdle =>
        \A c \in Chains :
            \A ev \in DOMAIN ledger[c].NFTLocked :
                /\ ev.lockHash \in ledger[Other(c)].processedLocks
                /\ \E r \in LockRows :
                        r.lock_hash = ev.lockHash /\ r.status = "unlocked"

----------------------------------------------------------------------------
(* The indexer under errors: a node or the database fails to answer one   *)
(* await of the run, or the process is killed and started again.           *)

\* the relay is up, one error or stop ahead, its calls one after the other
FaultyInit ==
    /\ ApprovedInit
    /\ db = EmptyDb
    /\ queue = EmptyQueue
    /\ proc = RunningProc
    /\ nFaults = 0
    /\ nOverlaps = MaxOverlaps
    /\ checkpoint = [c \in Chains |-> 0]

IndexerNext ==
    \/ MineBlock
    \/ UserLock
    \/ StartListener
    \/ Poll
    \/ Listen
    \/ Crash
    \/ ProofJob
    \/ Build
    \/ RootJob
    \/ Submit

IndexerSpec == FaultyInit /\ [][IndexerNext]_vars

\* the rows of unlock_events under a lock hash
RECURSIVE BagCountWhere(_, _)
BagCountWhere(b, S) ==
    IF S = {}
    THEN 0
    ELSE LET e == CHOOSE x \in S : TRUE
         IN b[e] + BagCountWhere(b, S \ {e})

UnlockRowCount(d, lockHash) ==
    BagCountWhere(d.unlock_events,
                  {r \in DOMAIN d.unlock_events : r.lock_hash = lockHash})

\* C21 as stated, its half on duplicates: for each chain, no lock event and
\* no unlock event of the chain is recorded twice, under any interleaving of
\* poll cycles and of failed and retried windows: one lock_events row per
\* lock hash and one unlock_events row per NFTUnlocked event
C21_RecordedOnce ==
    \A c \in Chains :
        /\ \A ev \in DOMAIN ledger[c].NFTLocked :
                Cardinality(RowsOf(db, ev.lockHash)) <= 1
        /\ \A ev \in DOMAIN ledger[c].NFTUnlocked :
                UnlockRowCount(db, ev.lockHash) <= 1

\* where EventListener.start resumes: lastProcessedBlock after its first
\* two awaits, the stored block or the head when there is none
ResumePoint(c) ==
    LET r == ListenerStep(World, MkListenerCall(c, "resume", TRUE), FALSE)
        s == IF r.call.pc = "head" THEN ListenerStep(r.w, r.call, FALSE) ELSE r
    IN s.w.proc.listener[c].lastProcessedBlock

\* C23 as stated: a listener that is down after having committed a window
\* resumes, when started, at the block of its last committed checkpoint
C23_ResumesAtCheckpoint ==
    \A c \in Chains :
        (~proc.listener[c].isRunning /\ checkpoint[c] > 0) =>
            ResumePoint(c) = checkpoint[c]

\* the failed_transactions entries of a lock record: those whose payload
\* names the record's block and source chain
FailedEntryFor(r) ==
    \E f \in DOMAIN db.failed_transactions :
        f.payload[1] = r.block_number /\ f.payload[2] = r.chain

\* nothing of the pipeline is under way: the queues are empty, no call is
\* in flight, and each listener is running, its timer set, and has
\* processed up to the head
IndexerQuiet ==
    /\ queue = EmptyQueue
    /\ InFlight(proc) = 0
    /\ \A c \in Chains :
        /\ proc.listener[c].isRunning
        /\ proc.listener[c].timers > 0
        /\ proc.listener[c].lastProcessedBlock = HeadOf(World, c)

\* C24 as stated: the pipeline never silently drops a lock: once nothing is
\* under way any more, every lock record is unlocked (or its lock is
\* processed on the destination) or has a failed-transaction entry
C24_NoSilentDrop ==
    IndexerQuiet =>
        \A r \in LockRows :
            \/ r.status = "unlocked"
            \/ ProcessedOnDestination(r)
            \/ FailedEntryFor(r)

----------------------------------------------------------------------------
(* The proof queue's workers: builds of one block asked for more than     *)
(* once, a build that throws and is tried again.                           *)

\* the relay is up, one error ahead, its calls free to overlap
WorkerInit ==
    /\ ApprovedInit
    /\ db = EmptyDb
    /\ queue = EmptyQueue
    /\ proc = RunningProc
    /\ nFaults = 0
    /\ nOverlaps = 0
    /\ checkpoint = [c \in Chains |-> 0]

WorkerNext ==
    \/ MineBlock
    \/ UserLock
    \/ UserBatchLock
    \/ Poll
    \/ Listen
    \/ ProofJob
    \/ Build

WorkerSpec == WorkerInit /\ [][WorkerNext]_vars

\* at most one build is in flight per key, and the keys in `processing` are
\* those of the builds in flight
OneBuildPerKey ==
    /\ \A b1, b2 \in proc.builds : BuildKey(b1.job) = BuildKey(b2.job) => b1 = b2
    /\ proc.processing = {BuildKey(b.job) : b \in proc.builds}

\* a job taken while its key is being processed changes nothing but the
\* queue; a job taken while its key is free is built
DroppedOrBuilt ==
    \A job \in DOMAIN queue.proofQueue :
        queue'.proofQueue = BagRemove(queue.proofQueue, job) =>
            IF BuildKey(job) \in proc.processing
            THEN db' = db /\ proc' = proc /\ queue'.rootQueue = queue.rootQueue
            ELSE MkBuild(job) \in proc'.builds /\ BuildKey(job) \in proc'.processing

\* C26: within one process at most one commitment build is in flight per
\* (chain, block) key at any time; a build request that arrives while a
\* build for its key is in flight returns without building; the key is
\* released when the build ends, by success, by finding no locks or by a
\* throw, so that a later request for the key is built again
C26_Theorem == []OneBuildPerKey /\ [][DroppedOrBuilt]_vars

\* a build of a block with two recorded locks is in flight, the job of the
\* block's other lock was dropped (it is neither queued nor in flight, and
\* no root of the block was stored), after a failed build released the key
C26_Witness ==
    \E b \in proc.builds :
        /\ Len(GetLockEventsByBlock(db, b.job.blockNumber, b.job.chain)) = 2
        /\ proc.builds = {b}
        /\ b.job.attemptsMade = 1
        /\ queue.proofQueue = EmptyBag
        /\ db.block_roots = EmptyDb.block_roots
        /\ db.failed_transactions # EmptyBag
----------------------------------------------------------------------------
(* Root submission: the root queue's workers and the monitor loop's sweep, *)
(* under errors of the nodes and of the database.                           *)

\* the relay's process with the listeners started and the relayer started,
\* its monitor loop at its first turn
ServingProc ==
    [RunningProc EXCEPT !.monitor = [EmptyMonitor EXCEPT !.isRunning = TRUE,
                                                         !.reading = 1]]

\* the relay is up; the run has one lock ahead, one error, and one call
\* that starts while another is in flight
SubmitInit ==
    /\ ledger = [c \in Chains |-> ApprovedLedger(c)]
    /\ blockNumber = [c \in Chains |-> 1]
    /\ nLocks = MaxRelayLocks - 1
    /\ nForged = 0
    /\ nAdmin = 0
    /\ db = EmptyDb
    /\ queue = EmptyQueue
    /\ proc = ServingProc
    /\ nFaults = 0
    /\ nOverlaps = 0
    /\ checkpoint = [c \in Chains |-> 0]

SubmitNext ==
    \/ MineBlock
    \/ UserLock
    \/ Poll
    \/ Listen
    \/ ProofJob
    \/ Build
    \/ RootJob
    \/ Submit
    \/ LoopSweeps
    \/ LoopWakes

SubmitSpec == SubmitInit /\ [][SubmitNext]_vars

\* the root stored for block bn on the verifier of chain c
OnChainRoot(c, bn) == ledger[c].blockRoots[bn]

\* C27 as stated: for a root job whose block has a root on the destination,
\* the reconciliation after the pre-check and the reconciliation after the
\* revert 'Root already submitted' are the same: same database, same
\* transactions sent, same unlock calls
C27_SamePaths ==
    \A job \in DOMAIN queue.rootQueue :
        OnChainRoot(job.destinationChain, job.blockNumber) # ZeroHash =>
            ReconcileExistingRoot(World, job.blockNumber, job.sourceChain,
                                  job.destinationChain)
            = ReconcileRevertedRoot(World, job.blockNumber, job.sourceChain,
                                    job.destinationChain)


\* the lock records a sweep owes an unlock call: those of a block whose
\* commitment is marked submitted, with a stored proof, neither marked
\* unlocked nor processed on the destination
AwaitingUnlock ==
    {r \in LockRows :
        /\ RootKey(r.block_number, r.chain) \in DOMAIN db.block_roots
        /\ db.block_roots[RootKey(r.block_number, r.chain)].submitted
        /\ r.lock_hash \in DOMAIN db.merkle_proofs
        /\ r.status # "unlocked"
        /\ ~ProcessedOnDestination(r)}

\* no call of submitBlockRoot is in flight
NoCallInFlight == proc.calls = EmptyBag

\* C28 as stated: a lock record of a submitted commitment that is not yet
\* unlocked, its unlock call having failed or not been made, gets an unlock
\* call on the next sweep of the monitor loop
C28_SweepRetries ==
    NoCallInFlight =>
        \A r \in AwaitingUnlock :
            \A rows \in GetPendingBlockRoots(db) :
                r.lock_hash \in ProcessPendingRoots(World, rows).attempted


\* C29: a commitment is marked submitted, and a lock record is at
\* root_submitted, only if a non-empty root of the block is stored on the
\* destination verifier (no root is ever cleared here)
C29_Theorem ==
    /\ \A k \in DOMAIN db.block_roots :
            db.block_roots[k].submitted => OnChainRoot(k[3], k[1]) # ZeroHash
    /\ \A r \in LockRows :
            r.status = "root_submitted" =>
                OnChainRoot(Other(r.chain), r.block_number) # ZeroHash

\* a call of submitBlockRoot whose estimateGas reverted with 'Root already
\* submitted for block' (another call's transaction was mined after its
\* pre-check) is in the catch block, past its updateBlockRootSubmission:
\* the commitment is marked submitted and the root is on the destination
C29_Witness ==
    \E c \in DOMAIN proc.calls :
        /\ c.pc = "reverted_status"
        /\ CommitmentOf(c.job) \in DOMAIN db.block_roots
        /\ db.block_roots[CommitmentOf(c.job)].submitted
        /\ OnChainRoot(c.job.destinationChain, c.job.blockNumber)
                = db.block_roots[CommitmentOf(c.job)].merkle_root
        /\ \E r \in LockRows :
                /\ r.block_number = c.job.blockNumber
                /\ r.chain = c.job.sourceChain
                /\ r.status = "proof_generated"


\* the rows of relayer_transactions of a chain and a transaction type
RelayerTransactions(c, txType) ==
    {x \in DOMAIN db.relayer_transactions :
        /\ db.relayer_transactions[x].chain = c
        /\ db.relayer_transactions[x].tx_type = txType}

\* C30 as stated, on the transactions that were mined, once no call is in
\* flight: every root the relay set and every unlock the relay sent has its
\* row in relayer_transactions, 'confirmed' or 'failed' (the relay is the
\* only sender of roots and unlocks here)
C30_OutboundRecorded ==
    NoCallInFlight =>
        \A c \in Chains :
            /\ \A bn \in Blocks :
                    OnChainRoot(c, bn) # ZeroHash =>
                        \E x \in RelayerTransactions(c, "submit_root") :
                            /\ \E n \in 1..ledger[c].sent : x = RootTxHash(c, bn, n)
                            /\ db.relayer_transactions[x].status
                                    \in {"confirmed", "failed"}
            /\ \A ev \in DOMAIN ledger[c].NFTUnlocked :
                    RelayerTransactions(c, "unlock_nft") # {}


\* C35 as stated: for every commitment marked submitted, its merkle_root
\* and the merkle_root of every proof record of its block are the root
\* stored on the destination for the block
C35_SubmittedRootIsOnChain ==
    \A k \in DOMAIN db.block_roots :
        db.block_roots[k].submitted =>
            /\ db.block_roots[k].merkle_root = OnChainRoot(k[3], k[1])
            /\ \A h \in DOMAIN db.merkle_proofs :
                    (/\ db.merkle_proofs[h].block_number = k[1]
                     /\ db.merkle_proofs[h].source_chain = k[2])
                        => db.merkle_proofs[h].merkle_root = OnChainRoot(k[3], k[1])


\* C36 as stated, on the submissions the verifiers accepted: the root the
\* relay passed to setBlockRoot is the merkle root of the leaves of the
\* lock records it passed in the same call
C36_RootOfPassedRecords ==
    \A c \in Chains :
        \A ev \in ledger[c].BlockRootSet :
            ev.submitter = RelayerAddress => ev.root = MerkleRoot(LeavesOf(ev.locks))


\* C40: a lock record has status 'unlocked' only if its lock hash is
\* processed on the destination verifier
C40_Theorem ==
    \A r \in LockRows :
        r.status = "unlocked" => r.lock_hash \in ledger[Other(r.chain)].processedLocks

\* a lock record is at 'unlocked' by the catch block of
\* processUnlocksForBlock: the call whose unlock transaction was mined has
\* still to write the status, and no listener has handled the NFTUnlocked
\* event or is about to
C40_Witness ==
    \E r \in LockRows :
        /\ r.status = "unlocked"
        /\ UnlockRowCount(db, r.lock_hash) = 0
        /\ \A ch \in Chains : proc.listener[ch].calls = EmptyBag
        /\ \E c \in DOMAIN proc.calls :
                /\ c.pc = "unlock_status"
                /\ c.unlock = "ok"
                /\ c.rows[c.i].lock_hash = r.lock_hash
----------------------------------------------------------------------------
(* submitBlockRoot called for one commitment by a worker of the root queue *)
(* and by the monitor loop's sweep, or by two workers, at the same time    *)

\* the calls of submitBlockRoot that overlapped on a commitment have
\* returned, no job of it is queued, no build of its block is queued or in
\* flight, and the listeners have handled every unlock
RacesOver(key) ==
    /\ key \in proc.raced
    /\ \A c \in DOMAIN proc.calls : CommitmentOf(c.job) # key
    /\ \A job \in DOMAIN queue.rootQueue : CommitmentOf(job) # key
    /\ queue.proofQueue = EmptyBag
    /\ proc.builds = {}
    /\ \A c \in Chains : proc.listener[c].calls = EmptyBag
    /\ \A ev \in DOMAIN ledger[key[3]].NFTUnlocked :
            UnlockRowCount(db, ev.lockHash) > 0

\* C31 as stated, on the lock records: after two runs of submitBlockRoot
\* for the same commitment that were in flight at the same time, the
\* commitment is marked submitted and every lock of the block that is
\* processed on the destination has a lock record of status 'unlocked'
C31_RacedRunsAgree ==
    \A key \in DOMAIN db.block_roots :
        RacesOver(key) =>
            /\ db.block_roots[key].submitted
            /\ \A r \in LockRows :
                (/\ r.block_number = key[1]
                 /\ r.chain = key[2]
                 /\ r.lock_hash \in ledger[key[3]].processedLocks)
                    => r.status = "unlocked"
----------------------------------------------------------------------------
(* Starting and stopping the listeners and the relayer *)

\* what an earlier run of the relay has left: token 1 locked on Ethereum in
\* block 1 by its owner, the lock recorded, its block built, the root not
\* submitted
EarlierRun ==
    LET locked == Lock(ETH, ApprovedLedger(ETH), InitLedger(ETH).nftOwner[1], 1, 1, 1).st
        w == [ledger |-> [c \in Chains |->
                            IF c = ETH THEN Mined(locked, 1) ELSE ApprovedLedger(c)],
              blockNumber |-> [c \in Chains |-> IF c = ETH THEN 2 ELSE 1],
              db |-> EmptyDb, queue |-> EmptyQueue, proc |-> EmptyProc,
              checkpoint |-> [c \in Chains |-> 0], attempted |-> {}]
    IN GenerateProofForBlock(LockInsert(w, ETH, locked.lockLog[1]), 1, ETH)

\* the relay's process is constructed over the chains and the database of
\* the earlier run, its queues empty, nothing started yet, PAUSE_ON_ERROR
\* set in its environment or not; the lock of the earlier run is the work
\* of this one (no user locks meanwhile)
ServiceInit ==
    /\ ledger = EarlierRun.ledger
    /\ blockNumber = EarlierRun.blockNumber
    /\ nLocks = 1
    /\ nForged = 0
    /\ nAdmin = 0
    /\ db = EarlierRun.db
    /\ queue = EmptyQueue
    /\ \E pauseOnError \in BOOLEAN :
            proc = [EmptyProc EXCEPT !.monitor.pauseOnError = pauseOnError]
    /\ nFaults = 0
    /\ nOverlaps = 0
    /\ checkpoint = [c \in Chains |-> 0]

ServiceNext ==
    \/ MineBlock
    \/ StartListener
    \/ StopListener
    \/ Poll
    \/ Listen
    \/ RelayerStart
    \/ RelayerStop
    \/ LoopBegins
    \/ LoopSweeps
    \/ LoopAlerts
    \/ LoopWakes
    \/ Submit

ServiceSpec == ServiceInit /\ [][ServiceNext]_vars

\* the monitor loops past start(): at the read of the pending rows, in a
\* call of submitBlockRoot, asleep
LoopsAtWork(p) == MonitorLoops(p) - p.monitor.starting

\* while the relayer is stopped no monitor loop comes to a new turn, and
\* while a listener is stopped no call of it begins
StoppedStartsNothing ==
    /\ (~proc.monitor.isRunning /\ ~proc'.monitor.isRunning)
            => /\ proc'.monitor.reading <= proc.monitor.reading
               /\ LoopsAtWork(proc') <= LoopsAtWork(proc)
    /\ \A c \in Chains :
            (~proc.listener[c].isRunning /\ ~proc'.listener[c].isRunning)
                => BagSize(proc'.listener[c].calls) <= BagSize(proc.listener[c].calls)

\* a stop (isRunning cleared, the process living on) leaves the loops and
\* the calls in flight as they are
StopLeavesCallsInFlight ==
    /\ (proc.monitor.isRunning /\ ~proc'.monitor.isRunning /\ nFaults' = nFaults)
            => /\ proc'.calls = proc.calls
               /\ proc'.monitor.starting = proc.monitor.starting
               /\ proc'.monitor.reading = proc.monitor.reading
               /\ proc'.monitor.alerting = proc.monitor.alerting
               /\ proc'.monitor.sleeping = proc.monitor.sleeping
    /\ \A c \in Chains :
            (proc.listener[c].isRunning /\ ~proc'.listener[c].isRunning
                /\ nFaults' = nFaults)
                => proc'.listener[c].calls = proc.listener[c].calls

C39_AtMostOneLoop == LoopsAtWork(proc) <= 1
----------------------------------------------------------------------------
(* Two locks of one block, unlocked in either order *)

\* what the verifier keeps about the asset of unlock a: the processed flag
\* of its lock, its custody flag, its owner
AssetView(st, a) ==
    <<a.lockHash \in st.processedLocks, st.lockedTokens[a.tokenId],
      st.nftOwner[a.tokenId]>>

\* the pairs of unlocks of two assets under one block's root that the
\* verifier on chain c accepts, each on its own
UnlockPairs(c) ==
    {p \in UnlockCalls(c) \X UnlockCalls(c) :
        /\ p[1].tokenId # p[2].tokenId
        /\ p[1].blockNumber = p[2].blockNumber
        /\ UnlockNFTWithProof(c, ledger[c], p[1]).ok
        /\ UnlockNFTWithProof(c, ledger[c], p[2]).ok}

\* the ledger of a verifier without the order of its NFTUnlocked events (the
\* events themselves stay, in the bag NFTUnlocked)
LogOrderDropped(st) == [st EXCEPT !.unlockLog = <<>>]

\* C32: of two unlocks of different assets committed in the same block that
\* are each accepted, the second is accepted after the first in either
\* order, both orders end in the same storage and the same events (the log
\* holds the two events in the order of the calls), and the processed flag, the
\* custody flag and the owner of the one asset are the same before and
\* after the unlock of the other
C32_Theorem ==
    \A c \in Chains :
        \A p \in UnlockPairs(c) :
            LET first == UnlockNFTWithProof(c, ledger[c], p[1])
                both == UnlockNFTWithProof(c, first.st, p[2])
                swapped == UnlockNFTWithProof(c,
                                UnlockNFTWithProof(c, ledger[c], p[2]).st, p[1])
            IN /\ both.ok
               /\ swapped.ok
               /\ LogOrderDropped(both.st) = LogOrderDropped(swapped.st)
               /\ AssetView(first.st, p[2]) = AssetView(ledger[c], p[2])
               /\ AssetView(both.st, p[1]) = AssetView(first.st, p[1])

\* two locks of one block are committed on a verifier, one is unlocked, the
\* other is still to come and accepted
C32_Witness ==
    \E c \in Chains :
        \E a \in UnlockCalls(c), h \in ledger[c].processedLocks :
            /\ h # a.lockHash
            /\ \E d \in RealLocks(Other(c)) :
                    d.lockHash = h /\ d.blockNumber = a.blockNumber /\ d.tokenId # a.tokenId
            /\ UnlockNFTWithProof(c, ledger[c], a).ok


----------------------------------------------------------------------------
(* Custody: the tokens between their holders, the verifiers and the        *)
(* accounts named bridge of a collection                                    *)

\* C37 as stated: on each verifier lockedTokens[id] is true exactly when
\* the verifier owns token id, after any sequence of locks, unlocks and
\* batch calls, no token moving in another way
C37_LockedIffOwned ==
    BridgeIsVerifier =>
        \A c \in Chains :
            \A t \in Tokens :
                ledger[c].lockedTokens[t] <=> ledger[c].nftOwner[t] = BridgeAddress(c)


\* token t is on its way: more locks of t were made on one verifier under
\* a lock hash than unlocks on the other
InTransit(t) ==
    \E c \in Chains :
        \E d \in DOMAIN ledger[c].NFTLocked :
            d.tokenId = t /\ ledger[c].NFTLocked[d] > UnlockCount(Other(c), d.lockHash)

\* C34 as stated, the collections minting through the verifiers only: with
\* honest submissions a token is never in a user's hands on both ledgers,
\* in no user's hands while it is on its way, and in a user's hands on
\* exactly one ledger otherwise
C34_OneHolder ==
    (nForged = 0 /\ NoAirdrop /\ BridgeIsVerifier) =>
        \A t \in Tokens :
            /\ ~(HeldByUser(ETH, t) /\ HeldByUser(MEGA, t))
            /\ InTransit(t) => ~HeldByUser(ETH, t) /\ ~HeldByUser(MEGA, t)
            /\ ~InTransit(t) => HeldByUser(ETH, t) \/ HeldByUser(MEGA, t)


----------------------------------------------------------------------------
(* Roots *)

\* C38 as stated: a block that has the metadata of an accepted submission
\* (no clearing since) has a non-empty root stored, and a further
\* submission for it is rejected
C38_AcceptedRootStays ==
    \A c \in Chains :
        \A bn \in Blocks :
            ledger[c].blockRootMetadata[bn] # ZeroRootMetadata =>
                /\ ledger[c].blockRoots[bn] # ZeroHash
                /\ \A s \in Submissions(c, bn) :
                        ~SetBlockRoot(ledger[c], ledger[c].rootSubmitter, bn,
                                      s.root, s.lockCount, s.locks).ok

====
